---- MODULE Spec2Model ----
(***************************************************************************)
(* gesture_teach: the annotation engine (DrawingCanvas), its per-frame     *)
(* driver (MainApp.handle_gestures), the GUI handlers that flush and       *)
(* reload annotations (AppGUI) and the annotation table (Database).        *)
(*                                                                         *)
(* A pixel buffer is modelled as the sequence of cv2 paint calls applied   *)
(* to it since its last fill(0): equal sequences give equal pixels.  The   *)
(* colour of a single pixel of such a buffer is computed by PixelAt.       *)
(***************************************************************************)
EXTENDS Integers, Sequences, FiniteSets, TLC

\* ------------------------------------------------------------------------
\* Bounds of the model
\* ------------------------------------------------------------------------
MaxLog == 3          \* longest in-session log an engine call may extend
MaxTweaks == 1       \* most changes of colour, brush size, tool and target in one run
MaxFrames == 3       \* most frames processed in one run
MaxEvents == 3       \* most session and slide-selection events in one run
MaxStore == 5        \* most rows of the annotations table
MaxReplay == 3       \* longest record sequence handed to the replay
MaxFailures == 1     \* most save_annotation calls that fail in one run
MaxSampleLog == 2    \* longest log in the runs that sample the whole input space
MaxPaints == 2       \* most shapes painted on one buffer by direct draw_shape calls
MaxBrushReplay == 2  \* longest record sequence replayed in the runs about brush sizes
StartTime == 10      \* the clock at start-up, in tenths of a second: every
                     \* cooldown measured from time 0 has passed
MaxTime == 20        \* last instant of the clock, in tenths of a second
TickStep == 10       \* how far one step of the clock advances it

\* ------------------------------------------------------------------------
\* Program constants
\* ------------------------------------------------------------------------
SLIDE_WIDTH == 1920
SLIDE_HEIGHT == 1080
WEBCAM_WIDTH == 1280
WEBCAM_HEIGHT == 720
NORM_WIDTH == 800
NORM_HEIGHT == 600
DefaultBrushSize == 5

PRESENTATION_MODE == 0
DRAWING_MODE == 1
ERASING_MODE == 2

\* Python's None, and the absence of a key in an annotation dict.  Every
\* optional value is a tuple: <<>> when absent, the value's components
\* otherwise (a point <<x, y>>, a colour <<b, g, r>>, a size <<n>>).
None == <<>>
NoKey == "<absent>"
NonDict == "<non-dict>"

colors == << <<0, 0, 255>>, <<0, 255, 0>>, <<255, 0, 0>>, <<255, 255, 0>> >>
blackboard_colors == << <<255, 255, 255>>, <<200, 200, 200>>,
                        <<150, 255, 255>>, <<255, 150, 255>> >>
Black == <<0, 0, 0>>
DefaultRed == <<0, 0, 255>>

Max(a, b) == IF a >= b THEN a ELSE b
Min(a, b) == IF a <= b THEN a ELSE b

\* int(): truncation toward zero of the quotient n / d, d > 0
TruncDiv(n, d) == IF n >= 0 THEN n \div d ELSE -((-n) \div d)

\* int(v ** 0.5) for an integer v >= 0
RECURSIVE SqrtSearch(_, _, _)
SqrtSearch(v, lo, hi) ==
    IF lo >= hi THEN lo
    ELSE LET mid == (lo + hi + 1) \div 2
         IN IF mid * mid <= v THEN SqrtSearch(v, mid, hi)
                              ELSE SqrtSearch(v, lo, mid - 1)
ISqrt(v) == SqrtSearch(v, 0, 4096)

\* ------------------------------------------------------------------------
\* Paint calls (cv2.line, cv2.circle, cv2.rectangle) and pixel buffers
\* ------------------------------------------------------------------------
Blank == <<>>

\* cv2.line(buf, a, b, color, thickness)
cv2_line(buf, a, b, color, thickness) ==
    Append(buf, [op |-> "line", a |-> a, b |-> b, color |-> color,
                 size |-> thickness, r |-> 0])

\* cv2.circle(buf, center, radius, color, -1): a filled disc.  A disc of the
\* background colour on an all-background buffer changes no pixel.
cv2_disc(buf, center, radius, color) ==
    IF buf = Blank /\ color = Black THEN buf
    ELSE Append(buf, [op |-> "disc", a |-> center, b |-> center,
                      color |-> color, size |-> 0, r |-> radius])

\* cv2.circle(buf, center, radius, color, thickness): an outline
cv2_circle(buf, center, radius, color, thickness) ==
    Append(buf, [op |-> "circle", a |-> center, b |-> center,
                 color |-> color, size |-> thickness, r |-> radius])

\* cv2.rectangle(buf, pt1, pt2, color, thickness): an outline
cv2_rectangle(buf, pt1, pt2, color, thickness) ==
    Append(buf, [op |-> "rect", a |-> pt1, b |-> pt2, color |-> color,
                 size |-> thickness, r |-> 0])

\* ------------------------------------------------------------------------
\* Annotation dicts
\* ------------------------------------------------------------------------
\* An annotation dict with its eight possible keys ('timestamp' is written by
\* every producer and read by none: it is left out).  A key that is absent
\* holds None (NoKey for the two string keys).
Ann(type, coords, prev_coords, shape_start, shape_end, color, brush_size, target) ==
    [type |-> type, coords |-> coords, prev_coords |-> prev_coords,
     shape_start |-> shape_start, shape_end |-> shape_end, color |-> color,
     brush_size |-> brush_size, target |-> target]

\* ann.get('type') of a loaded item; an item that is no dict has none
IsDict(ann) == ann.type # NonDict

\* ------------------------------------------------------------------------
\* DrawingCanvas: pure parts
\* ------------------------------------------------------------------------
get_current_color(current_color_index, blackboard_mode) ==
    LET cs == IF blackboard_mode THEN blackboard_colors ELSE colors
    IN cs[(current_color_index % Len(cs)) + 1]

\* the scaling without the clamp to the surface
MapCoord_unclamped(v_norm, size, norm) == TruncDiv(v_norm * size, norm)

\* min(max(int(v_norm * size / norm), 0), size - 1)
MapCoord(v_norm, size, norm) ==
    Min(Max(TruncDiv(v_norm * size, norm), 0), size - 1)

SlidePoint(x_norm, y_norm) ==
    << MapCoord(x_norm, SLIDE_WIDTH, NORM_WIDTH),
       MapCoord(y_norm, SLIDE_HEIGHT, NORM_HEIGHT) >>

WebcamPoint(x_norm, y_norm) ==
    << MapCoord(x_norm, WEBCAM_WIDTH, NORM_WIDTH),
       MapCoord(y_norm, WEBCAM_HEIGHT, NORM_HEIGHT) >>

\* int(((ex - sx) ** 2 + (ey - sy) ** 2) ** 0.5)
ShapeRadius(start, end) ==
    ISqrt((end[1] - start[1]) * (end[1] - start[1])
          + (end[2] - start[2]) * (end[2] - start[2]))

\* draw_shape that does not clip a rectangle to the buffer
draw_shape_unclipped(buf, w, h, start, end, mode, color, thickness) ==
    IF start = None \/ end = None THEN buf
    ELSE LET t == Max(1, thickness)
         IN IF mode = "circle" THEN
                LET radius == ShapeRadius(start, end)
                IN IF radius > 0 THEN cv2_circle(buf, start, radius, color, t)
                   ELSE buf
            ELSE IF mode = "square" THEN
                LET pt1 == << Min(start[1], end[1]), Min(start[2], end[2]) >>
                    pt2 == << Max(start[1], end[1]), Max(start[2], end[2]) >>
                IN IF pt1[1] < pt2[1] /\ pt1[2] < pt2[2]
                   THEN cv2_rectangle(buf, pt1, pt2, color, t)
                   ELSE buf
            ELSE buf

\* draw_shape on a buffer of w x h pixels: the buffer after the call
draw_shape(buf, w, h, start, end, mode, color, thickness) ==
    IF start = None \/ end = None THEN buf
    ELSE LET t == Max(1, thickness)
         IN IF mode = "circle" THEN
                LET radius == ShapeRadius(start, end)
                IN IF radius > 0 THEN cv2_circle(buf, start, radius, color, t)
                   ELSE buf
            ELSE IF mode = "square" THEN
                LET pt1 == << Max(0, Min(start[1], end[1])),
                              Max(0, Min(start[2], end[2])) >>
                    pt2 == << Min(w - 1, Max(start[1], end[1])),
                              Min(h - 1, Max(start[2], end[2])) >>
                IN IF pt1[1] < pt2[1] /\ pt1[2] < pt2[2]
                   THEN cv2_rectangle(buf, pt1, pt2, color, t)
                   ELSE buf
            ELSE buf

\* the eraser radius without its lower limit of 5
EraseRadius_unfloored(brush_size) == brush_size * 2

\* max(5, self.brush_size * 2)
EraseRadius(brush_size) == Max(5, brush_size * 2)

\* max(1, brush_size // 2)
StartRadius(brush_size) == Max(1, brush_size \div 2)

\* ------------------------------------------------------------------------
\* State
\* ------------------------------------------------------------------------
VARIABLES
    \* DrawingCanvas
    canvas, webcam_canvas, preview_canvas, webcam_preview_canvas,
    slide_prev, webcam_prev,            \* (slide_prev_x, slide_prev_y), ...
    slide_shape_start, webcam_shape_start,
    current_color_index, brush_size,
    current_annotations,
    \* Database: the rows of the annotations table, the clock (time.time() and
    \* the server's NOW(), in tenths of a second) and the number of
    \* save_annotation calls that failed
    annotations_table, now, failures,
    \* AppGUI
    current_user_id, slides, current_set_id, current_slide_index,
    drawing_mode, draw_location,
    \* MainApp and GestureController
    current_mode, last_mode, last_draw_action_time, last_action_time,
    last_color_change_time, last_gesture_time, frame_error,
    \* whether the canvas object has the set_opacity attribute that main.py:190
    \* calls: FALSE for the DrawingCanvas class as written
    has_set_opacity,
    \* the last engine or driver step taken, and what it was given
    last_op,
    \* how many changes of colour, brush size, tool and drawing target were
    \* made, how many frames were processed, and how many GUI events that
    \* log in or out, select slides or close the window were handled
    tweaks, frames, events

canvas_vars == << canvas, webcam_canvas, preview_canvas, webcam_preview_canvas,
                  slide_prev, webcam_prev, slide_shape_start, webcam_shape_start,
                  current_color_index, brush_size, current_annotations >>
db_vars == << annotations_table, now, failures >>
gui_vars == << current_user_id, slides, current_set_id, current_slide_index,
              drawing_mode, draw_location >>
app_vars == << current_mode, last_mode, last_draw_action_time, last_action_time,
               last_color_change_time, last_gesture_time, frame_error,
               has_set_opacity >>
budgets == << tweaks, frames, events >>
vars == << canvas_vars, db_vars, gui_vars, app_vars, last_op, budgets >>

\* The DrawingCanvas object as one value, so that a handler can chain calls
DC == [canvas |-> canvas, webcam_canvas |-> webcam_canvas,
       preview_canvas |-> preview_canvas,
       webcam_preview_canvas |-> webcam_preview_canvas,
       slide_prev |-> slide_prev, webcam_prev |-> webcam_prev,
       slide_shape_start |-> slide_shape_start,
       webcam_shape_start |-> webcam_shape_start,
       current_color_index |-> current_color_index,
       brush_size |-> brush_size,
       current_annotations |-> current_annotations]

SetDC(dc) ==
    /\ canvas' = dc.canvas
    /\ webcam_canvas' = dc.webcam_canvas
    /\ preview_canvas' = dc.preview_canvas
    /\ webcam_preview_canvas' = dc.webcam_preview_canvas
    /\ slide_prev' = dc.slide_prev
    /\ webcam_prev' = dc.webcam_prev
    /\ slide_shape_start' = dc.slide_shape_start
    /\ webcam_shape_start' = dc.webcam_shape_start
    /\ current_color_index' = dc.current_color_index
    /\ brush_size' = dc.brush_size
    /\ current_annotations' = dc.current_annotations

\* DrawingCanvas.__init__
NewCanvas ==
    [canvas |-> Blank, webcam_canvas |-> Blank, preview_canvas |-> Blank,
     webcam_preview_canvas |-> Blank,
     slide_prev |-> None, webcam_prev |-> None,
     slide_shape_start |-> None, webcam_shape_start |-> None,
     current_color_index |-> 0, brush_size |-> DefaultBrushSize,
     current_annotations |-> <<>>]

SetDCInit ==
    /\ canvas = NewCanvas.canvas
    /\ webcam_canvas = NewCanvas.webcam_canvas
    /\ preview_canvas = NewCanvas.preview_canvas
    /\ webcam_preview_canvas = NewCanvas.webcam_preview_canvas
    /\ slide_prev = NewCanvas.slide_prev
    /\ webcam_prev = NewCanvas.webcam_prev
    /\ slide_shape_start = NewCanvas.slide_shape_start
    /\ webcam_shape_start = NewCanvas.webcam_shape_start
    /\ current_color_index = NewCanvas.current_color_index
    /\ brush_size = NewCanvas.brush_size
    /\ current_annotations = NewCanvas.current_annotations

\* ------------------------------------------------------------------------
\* DrawingCanvas: operations, each as the object after the call
\* ------------------------------------------------------------------------
\* draw that paints a dragged shape on the main buffer as well
draw_commits_drag(dc, x_norm, y_norm, mode, blackboard_mode) ==
    LET pt == SlidePoint(x_norm, y_norm)
        color == get_current_color(dc.current_color_index, blackboard_mode)
        base == Ann(mode, pt, None, None, None, color, <<dc.brush_size>>, "slide")
    IN IF mode = "pen" THEN
           IF dc.slide_prev # None THEN
               [dc EXCEPT
                  !.canvas = cv2_line(@, dc.slide_prev, pt, color, dc.brush_size),
                  !.slide_prev = pt,
                  !.current_annotations =
                      Append(@, [base EXCEPT !.prev_coords = dc.slide_prev])]
           ELSE
               [dc EXCEPT
                  !.canvas = cv2_disc(@, pt, StartRadius(dc.brush_size), color),
                  !.slide_prev = pt,
                  !.current_annotations = Append(@, base)]
       ELSE IF mode \in {"circle", "square"} THEN
           IF dc.slide_shape_start = None THEN
               [dc EXCEPT
                  !.slide_shape_start = pt,
                  !.current_annotations =
                      Append(@, [base EXCEPT !.shape_start = pt])]
           ELSE
               [dc EXCEPT
                  !.canvas =
                      draw_shape(@, SLIDE_WIDTH, SLIDE_HEIGHT,
                                 dc.slide_shape_start, pt, mode, color,
                                 dc.brush_size),
                  !.preview_canvas =
                      draw_shape(Blank, SLIDE_WIDTH, SLIDE_HEIGHT,
                                 dc.slide_shape_start, pt, mode, color,
                                 dc.brush_size),
                  !.current_annotations =
                      Append(@, [base EXCEPT !.shape_start = dc.slide_shape_start,
                                             !.shape_end = pt])]
       ELSE [dc EXCEPT !.current_annotations = Append(@, base)]

\* draw whose first shape sample anchors the shape on both targets
draw_sharing_anchor(dc, x_norm, y_norm, mode, blackboard_mode) ==
    LET pt == SlidePoint(x_norm, y_norm)
        color == get_current_color(dc.current_color_index, blackboard_mode)
        base == Ann(mode, pt, None, None, None, color, <<dc.brush_size>>, "slide")
    IN IF mode = "pen" THEN
           IF dc.slide_prev # None THEN
               [dc EXCEPT
                  !.canvas = cv2_line(@, dc.slide_prev, pt, color, dc.brush_size),
                  !.slide_prev = pt,
                  !.current_annotations =
                      Append(@, [base EXCEPT !.prev_coords = dc.slide_prev])]
           ELSE
               [dc EXCEPT
                  !.canvas = cv2_disc(@, pt, StartRadius(dc.brush_size), color),
                  !.slide_prev = pt,
                  !.current_annotations = Append(@, base)]
       ELSE IF mode \in {"circle", "square"} THEN
           IF dc.slide_shape_start = None THEN
               [dc EXCEPT
                  !.slide_shape_start = pt,
                  !.webcam_shape_start = WebcamPoint(x_norm, y_norm),
                  !.current_annotations =
                      Append(@, [base EXCEPT !.shape_start = pt])]
           ELSE
               [dc EXCEPT
                  !.preview_canvas =
                      draw_shape(Blank, SLIDE_WIDTH, SLIDE_HEIGHT,
                                 dc.slide_shape_start, pt, mode, color,
                                 dc.brush_size),
                  !.current_annotations =
                      Append(@, [base EXCEPT !.shape_start = dc.slide_shape_start,
                                             !.shape_end = pt])]
       ELSE [dc EXCEPT !.current_annotations = Append(@, base)]

\* draw(x_norm, y_norm, mode, blackboard_mode)
draw(dc, x_norm, y_norm, mode, blackboard_mode) ==
    LET pt == SlidePoint(x_norm, y_norm)
        color == get_current_color(dc.current_color_index, blackboard_mode)
        base == Ann(mode, pt, None, None, None, color, <<dc.brush_size>>, "slide")
    IN IF mode = "pen" THEN
           IF dc.slide_prev # None THEN
               [dc EXCEPT
                  !.canvas = cv2_line(@, dc.slide_prev, pt, color, dc.brush_size),
                  !.slide_prev = pt,
                  !.current_annotations =
                      Append(@, [base EXCEPT !.prev_coords = dc.slide_prev])]
           ELSE
               [dc EXCEPT
                  !.canvas = cv2_disc(@, pt, StartRadius(dc.brush_size), color),
                  !.slide_prev = pt,
                  !.current_annotations = Append(@, base)]
       ELSE IF mode \in {"circle", "square"} THEN
           IF dc.slide_shape_start = None THEN
               [dc EXCEPT
                  !.slide_shape_start = pt,
                  !.current_annotations =
                      Append(@, [base EXCEPT !.shape_start = pt])]
           ELSE
               [dc EXCEPT
                  !.preview_canvas =
                      draw_shape(Blank, SLIDE_WIDTH, SLIDE_HEIGHT,
                                 dc.slide_shape_start, pt, mode, color,
                                 dc.brush_size),
                  !.current_annotations =
                      Append(@, [base EXCEPT !.shape_start = dc.slide_shape_start,
                                             !.shape_end = pt])]
       ELSE [dc EXCEPT !.current_annotations = Append(@, base)]

\* draw_on_webcam whose pen branch does not remember the sample point
draw_on_webcam_forgets_prev(dc, x_norm, y_norm, mode, blackboard_mode) ==
    LET pt == WebcamPoint(x_norm, y_norm)
        color == get_current_color(dc.current_color_index, blackboard_mode)
        base == Ann(mode, pt, None, None, None, color, <<dc.brush_size>>, "webcam")
    IN IF mode = "pen" THEN
           IF dc.webcam_prev # None THEN
               [dc EXCEPT
                  !.webcam_canvas = cv2_line(@, dc.webcam_prev, pt, color, dc.brush_size),
                  !.current_annotations =
                      Append(@, [base EXCEPT !.prev_coords = dc.webcam_prev])]
           ELSE
               [dc EXCEPT
                  !.webcam_canvas = cv2_disc(@, pt, StartRadius(dc.brush_size), color),
                  !.current_annotations = Append(@, base)]
       ELSE IF mode \in {"circle", "square"} THEN
           IF dc.webcam_shape_start = None THEN
               [dc EXCEPT
                  !.webcam_shape_start = pt,
                  !.current_annotations =
                      Append(@, [base EXCEPT !.shape_start = pt])]
           ELSE
               [dc EXCEPT
                  !.webcam_preview_canvas =
                      draw_shape(Blank, WEBCAM_WIDTH, WEBCAM_HEIGHT,
                                 dc.webcam_shape_start, pt, mode, color,
                                 dc.brush_size),
                  !.current_annotations =
                      Append(@, [base EXCEPT !.shape_start = dc.webcam_shape_start,
                                             !.shape_end = pt])]
       ELSE [dc EXCEPT !.current_annotations = Append(@, base)]

\* draw_on_webcam(x_norm, y_norm, mode, blackboard_mode)
draw_on_webcam(dc, x_norm, y_norm, mode, blackboard_mode) ==
    LET pt == WebcamPoint(x_norm, y_norm)
        color == get_current_color(dc.current_color_index, blackboard_mode)
        base == Ann(mode, pt, None, None, None, color, <<dc.brush_size>>, "webcam")
    IN IF mode = "pen" THEN
           IF dc.webcam_prev # None THEN
               [dc EXCEPT
                  !.webcam_canvas = cv2_line(@, dc.webcam_prev, pt, color, dc.brush_size),
                  !.webcam_prev = pt,
                  !.current_annotations =
                      Append(@, [base EXCEPT !.prev_coords = dc.webcam_prev])]
           ELSE
               [dc EXCEPT
                  !.webcam_canvas = cv2_disc(@, pt, StartRadius(dc.brush_size), color),
                  !.webcam_prev = pt,
                  !.current_annotations = Append(@, base)]
       ELSE IF mode \in {"circle", "square"} THEN
           IF dc.webcam_shape_start = None THEN
               [dc EXCEPT
                  !.webcam_shape_start = pt,
                  !.current_annotations =
                      Append(@, [base EXCEPT !.shape_start = pt])]
           ELSE
               [dc EXCEPT
                  !.webcam_preview_canvas =
                      draw_shape(Blank, WEBCAM_WIDTH, WEBCAM_HEIGHT,
                                 dc.webcam_shape_start, pt, mode, color,
                                 dc.brush_size),
                  !.current_annotations =
                      Append(@, [base EXCEPT !.shape_start = dc.webcam_shape_start,
                                             !.shape_end = pt])]
       ELSE [dc EXCEPT !.current_annotations = Append(@, base)]

\* erase(x_norm, y_norm)
erase(dc, x_norm, y_norm) ==
    LET erase_radius == EraseRadius(dc.brush_size)
        ps == SlidePoint(x_norm, y_norm)
        pw == WebcamPoint(x_norm, y_norm)
    IN [dc EXCEPT
          !.canvas = cv2_disc(@, ps, erase_radius, Black),
          !.webcam_canvas = cv2_disc(@, pw, erase_radius, Black),
          !.current_annotations =
              Append(@, Ann("erase", ps, None, None, None, None,
                            <<erase_radius>>, "both"))]

\* clear_canvas that leaves no marker in the log
clear_canvas_unlogged(dc) ==
    [dc EXCEPT
       !.canvas = Blank, !.webcam_canvas = Blank,
       !.preview_canvas = Blank, !.webcam_preview_canvas = Blank]

\* clear_canvas that starts the log afresh with the marker
clear_canvas_wiping_log(dc) ==
    [dc EXCEPT
       !.canvas = Blank, !.webcam_canvas = Blank,
       !.preview_canvas = Blank, !.webcam_preview_canvas = Blank,
       !.current_annotations =
           << Ann("clear_canvas", None, None, None, None, None, None, "both") >>]

\* clear_canvas()
clear_canvas(dc) ==
    [dc EXCEPT
       !.canvas = Blank, !.webcam_canvas = Blank,
       !.preview_canvas = Blank, !.webcam_preview_canvas = Blank,
       !.current_annotations =
           Append(@, Ann("clear_canvas", None, None, None, None, None, None,
                         "both"))]

\* change_color()
change_color(dc) ==
    [dc EXCEPT !.current_color_index = (@ + 1) % Len(colors)]

\* set_brush_size that stores the converted value as it is
set_brush_size_unclamped(dc, size) ==
    IF size = None THEN dc ELSE [dc EXCEPT !.brush_size = size[1]]

\* set_brush_size(size).  size is <<n>> for a value that int() converts to n,
\* and None for a value on which int() raises ValueError or TypeError
set_brush_size(dc, size) ==
    IF size = None THEN dc ELSE [dc EXCEPT !.brush_size = Max(1, size[1])]

\* reset_points: the backward scan of the log for the shape anchored at
\* `start` on `target` (lines 220-236 and 287-299), from index i down to 1.
RECURSIVE scan_back(_, _, _, _, _, _, _)
scan_back(log, i, start, target, mode, last_shape_end, indices_to_remove) ==
    IF i < 1 THEN
        [last_shape_end |-> last_shape_end,
         indices_to_remove |-> indices_to_remove, stopped_at |-> 0]
    ELSE
        LET ann == log[i]
        IN IF ann.shape_start = start /\ ann.target = target /\ ann.type = mode
           THEN LET e == IF ann.shape_end # None /\ last_shape_end = None
                         THEN ann.shape_end ELSE last_shape_end
                    ix == indices_to_remove \cup {i}
                IN IF ann.shape_end = None
                   THEN [last_shape_end |-> e, indices_to_remove |-> ix,
                         stopped_at |-> i]
                   ELSE scan_back(log, i - 1, start, target, mode, e, ix)
           ELSE scan_back(log, i - 1, start, target, mode, last_shape_end,
                          indices_to_remove)

\* del log[index] for every index of the set, highest first
RemoveIndices(log, indices) ==
    LET F[i \in 0..Len(log)] ==
            IF i = 0 THEN <<>>
            ELSE IF i \in indices THEN F[i - 1] ELSE Append(F[i - 1], log[i])
    IN F[Len(log)]

\* finalize_shape with the consolidation left out: the previews stay in the log
finalize_shape_keep_previews(buf, w, h, log, start, target, mode, color, thickness) ==
    LET s == scan_back(log, Len(log), start, target, mode, None, {})
    IN IF s.last_shape_end # None THEN
           [buf |-> draw_shape(buf, w, h, start, s.last_shape_end, mode, color,
                               thickness),
            log |-> Append(log, Ann(mode, None, None, start, s.last_shape_end,
                                    color, <<thickness>>, target))]
       ELSE [buf |-> buf, log |-> RemoveIndices(log, s.indices_to_remove)]

\* finalize_shape with the discard of an abandoned anchor left out
finalize_shape_no_discard(buf, w, h, log, start, target, mode, color, thickness) ==
    LET s == scan_back(log, Len(log), start, target, mode, None, {})
        kept == RemoveIndices(log, s.indices_to_remove)
    IN IF s.last_shape_end # None THEN
           [buf |-> draw_shape(buf, w, h, start, s.last_shape_end, mode, color,
                               thickness),
            log |-> Append(kept, Ann(mode, None, None, start, s.last_shape_end,
                                     color, <<thickness>>, target))]
       ELSE [buf |-> buf, log |-> log]

\* finalize_shape that records the final shape without painting it
finalize_shape_unpainted(buf, w, h, log, start, target, mode, color, thickness) ==
    LET s == scan_back(log, Len(log), start, target, mode, None, {})
        kept == RemoveIndices(log, s.indices_to_remove)
    IN IF s.last_shape_end # None THEN
           [buf |-> buf,
            log |-> Append(kept, Ann(mode, None, None, start, s.last_shape_end,
                                     color, <<thickness>>, target))]
       ELSE [buf |-> buf, log |-> kept]

\* reset_points: the finalize step for one target (lines 217-282, 285-334):
\* the main buffer of the target and the log after it
finalize_shape(buf, w, h, log, start, target, mode, color, thickness) ==
    LET s == scan_back(log, Len(log), start, target, mode, None, {})
        kept == RemoveIndices(log, s.indices_to_remove)
    IN IF s.last_shape_end # None THEN
           [buf |-> draw_shape(buf, w, h, start, s.last_shape_end, mode, color,
                               thickness),
            log |-> Append(kept, Ann(mode, None, None, start, s.last_shape_end,
                                     color, <<thickness>>, target))]
       ELSE [buf |-> buf, log |-> kept]

\* reset_points that leaves the preview buffers as they are
reset_points_keeps_previews(dc, mode, blackboard_mode) ==
    LET color == get_current_color(dc.current_color_index, blackboard_mode)
        s == IF mode \in {"circle", "square"} /\ dc.slide_shape_start # None
             THEN finalize_shape(dc.canvas, SLIDE_WIDTH, SLIDE_HEIGHT,
                                 dc.current_annotations, dc.slide_shape_start,
                                 "slide", mode, color, dc.brush_size)
             ELSE [buf |-> dc.canvas, log |-> dc.current_annotations]
        w == IF mode \in {"circle", "square"} /\ dc.webcam_shape_start # None
             THEN finalize_shape(dc.webcam_canvas, WEBCAM_WIDTH, WEBCAM_HEIGHT,
                                 s.log, dc.webcam_shape_start,
                                 "webcam", mode, color, dc.brush_size)
             ELSE [buf |-> dc.webcam_canvas, log |-> s.log]
    IN [dc EXCEPT
          !.canvas = s.buf, !.webcam_canvas = w.buf,
          !.current_annotations = w.log,
          !.slide_prev = None, !.webcam_prev = None,
          !.slide_shape_start = None, !.webcam_shape_start = None]

\* reset_points(mode, blackboard_mode)
reset_points(dc, mode, blackboard_mode) ==
    LET color == get_current_color(dc.current_color_index, blackboard_mode)
        s == IF mode \in {"circle", "square"} /\ dc.slide_shape_start # None
             THEN finalize_shape(dc.canvas, SLIDE_WIDTH, SLIDE_HEIGHT,
                                 dc.current_annotations, dc.slide_shape_start,
                                 "slide", mode, color, dc.brush_size)
             ELSE [buf |-> dc.canvas, log |-> dc.current_annotations]
        w == IF mode \in {"circle", "square"} /\ dc.webcam_shape_start # None
             THEN finalize_shape(dc.webcam_canvas, WEBCAM_WIDTH, WEBCAM_HEIGHT,
                                 s.log, dc.webcam_shape_start,
                                 "webcam", mode, color, dc.brush_size)
             ELSE [buf |-> dc.webcam_canvas, log |-> s.log]
    IN [dc EXCEPT
          !.canvas = s.buf, !.webcam_canvas = w.buf,
          !.current_annotations = w.log,
          !.slide_prev = None, !.webcam_prev = None,
          !.slide_shape_start = None, !.webcam_shape_start = None,
          !.preview_canvas = Blank, !.webcam_preview_canvas = Blank]

\* ------------------------------------------------------------------------
\* DrawingCanvas.load_annotations (the replay)
\* ------------------------------------------------------------------------
\* last_clear_index that stops at the first clear_canvas item
first_clear_index(annotations) ==
    LET F[i \in 0..Len(annotations)] ==
            IF i = 0 THEN 0
            ELSE IF F[i - 1] # 0 THEN F[i - 1]
                 ELSE IF IsDict(annotations[i]) /\ annotations[i].type = "clear_canvas"
                      THEN i ELSE 0
    IN F[Len(annotations)]

\* lines 409-413: the index of the last clear_canvas item, 0 when none
\* (sequences are 1-based here: Python's -1 is 0)
last_clear_index(annotations) ==
    LET F[i \in 0..Len(annotations)] ==
            IF i = 0 THEN 0
            ELSE IF IsDict(annotations[i]) /\ annotations[i].type = "clear_canvas"
                 THEN i ELSE F[i - 1]
    IN F[Len(annotations)]

\* line 416: annotations[last_clear_index + 1:]
annotations_to_render(annotations) ==
    SubSeq(annotations, last_clear_index(annotations) + 1, Len(annotations))

\* lines 433-437
LoadedColor(ann) == IF Len(ann.color) = 3 THEN ann.color ELSE DefaultRed

\* int(p[0]), int(p[1]) of a stored point raises when it has fewer than two
\* entries; int(brush_size) raises when the stored size is a list
Raises(ann) ==
    \/ Len(ann.brush_size) > 1
    \/ /\ ann.type = "pen"
       /\ ann.coords # None
       /\ Len(ann.coords) < 2 \/ (ann.prev_coords # None /\ Len(ann.prev_coords) < 2)
    \/ /\ ann.type \in {"circle", "square"}
       /\ ann.shape_start # None /\ ann.shape_end # None
       /\ Len(ann.shape_start) < 2 \/ Len(ann.shape_end) < 2
    \/ /\ ann.type = "erase"
       /\ ann.coords # None
       /\ Len(ann.coords) < 2

Pt(p) == << p[1], p[2] >>

\* the erase centre used on the webcam buffer as it is stored, in slide space
erase_center_unscaled(c) == c

\* lines 504-506: the stored slide-space erase centre on the webcam buffer
erase_center_wc(c) ==
    << TruncDiv(c[1] * WEBCAM_WIDTH, SLIDE_WIDTH),
       TruncDiv(c[2] * WEBCAM_HEIGHT, SLIDE_HEIGHT) >>

\* lines 425-523: one pass of the render loop over `ann`; b holds the two
\* main buffers, self_brush_size is the canvas's own brush size
render_one(b, ann, self_brush_size) ==
    IF ~IsDict(ann) \/ Raises(ann) THEN b
    ELSE
    LET color == LoadedColor(ann)
        bsize == Max(1, IF ann.brush_size = None THEN 5 ELSE ann.brush_size[1])
        target == IF ann.target = NoKey THEN "slide" ELSE ann.target
        draw_on_slide == target \in {"slide", "both"}
        draw_on_webcam_ == target \in {"webcam", "both"}
    IN IF ann.type = "pen" THEN
           IF ann.coords = None THEN b
           ELSE IF ann.prev_coords # None THEN
               [canvas |-> IF draw_on_slide
                           THEN cv2_line(b.canvas, Pt(ann.prev_coords),
                                         Pt(ann.coords), color, bsize)
                           ELSE b.canvas,
                webcam_canvas |-> IF draw_on_webcam_
                                  THEN cv2_line(b.webcam_canvas, Pt(ann.prev_coords),
                                                Pt(ann.coords), color, bsize)
                                  ELSE b.webcam_canvas]
           ELSE
               [canvas |-> IF draw_on_slide
                           THEN cv2_disc(b.canvas, Pt(ann.coords),
                                         StartRadius(bsize), color)
                           ELSE b.canvas,
                webcam_canvas |-> IF draw_on_webcam_
                                  THEN cv2_disc(b.webcam_canvas, Pt(ann.coords),
                                                StartRadius(bsize), color)
                                  ELSE b.webcam_canvas]
       ELSE IF ann.type \in {"circle", "square"} THEN
           IF ann.shape_start # None /\ ann.shape_end # None THEN
               [canvas |-> IF draw_on_slide
                           THEN draw_shape(b.canvas, SLIDE_WIDTH, SLIDE_HEIGHT,
                                           Pt(ann.shape_start), Pt(ann.shape_end),
                                           ann.type, color, bsize)
                           ELSE b.canvas,
                webcam_canvas |-> IF draw_on_webcam_
                                  THEN draw_shape(b.webcam_canvas, WEBCAM_WIDTH,
                                                  WEBCAM_HEIGHT, Pt(ann.shape_start),
                                                  Pt(ann.shape_end), ann.type, color,
                                                  bsize)
                                  ELSE b.webcam_canvas]
           ELSE b
       ELSE IF ann.type = "erase" THEN
           LET erase_radius ==
                   Max(1, IF ann.brush_size = None THEN EraseRadius(self_brush_size)
                          ELSE ann.brush_size[1])
           IN IF ann.coords = None THEN b
              ELSE LET c == Pt(ann.coords)
                       wc == erase_center_wc(c)
                   IN [canvas |-> cv2_disc(b.canvas, c, erase_radius, Black),
                       webcam_canvas |-> cv2_disc(b.webcam_canvas, wc,
                                                  erase_radius, Black)]
       ELSE b

\* the render loop over a sequence of items, from blank buffers
render_all(items, self_brush_size) ==
    LET F[i \in 0..Len(items)] ==
            IF i = 0 THEN [canvas |-> Blank, webcam_canvas |-> Blank]
            ELSE render_one(F[i - 1], items[i], self_brush_size)
    IN F[Len(items)]

\* load_annotations(annotations)
load_annotations(dc, annotations) ==
    LET b == render_all(annotations_to_render(annotations), dc.brush_size)
    IN [dc EXCEPT
          !.canvas = b.canvas, !.webcam_canvas = b.webcam_canvas,
          !.preview_canvas = Blank, !.webcam_preview_canvas = Blank,
          !.current_annotations = <<>>]

\* ------------------------------------------------------------------------
\* Inputs
\* ------------------------------------------------------------------------
\* pointer samples in the normalized 800 x 600 space
NormPoints == { <<100, 100>>, <<300, 200>> }
Tools == {"pen", "circle", "square"}
Shapes == {"circle", "square"}
BrushSizes == {2, 5}

\* the state after construction (MainApp.__init__, AppGUI.__init__,
\* GestureController.__init__), nobody logged in
InitCommon ==
    /\ SetDCInit
    /\ annotations_table = <<>>
    /\ now = StartTime
    /\ failures = 0
    /\ current_user_id = None
    /\ slides = <<>>
    /\ current_set_id = None
    /\ current_slide_index = -1
    /\ drawing_mode = "pen"
    /\ draw_location = "slide"
    /\ current_mode = PRESENTATION_MODE
    /\ last_mode = None
    /\ last_draw_action_time = 0
    /\ last_action_time = 0
    /\ last_color_change_time = 0
    /\ last_gesture_time = 0
    /\ frame_error = FALSE
    /\ last_op = [op |-> "init"]
    /\ tweaks = 0
    /\ frames = 0
    /\ events = 0

\* ------------------------------------------------------------------------
\* EngineSpec: the engine's operations called in any order
\* ------------------------------------------------------------------------
Room == Len(current_annotations) < MaxLog

Draw(p, mode, bb) ==
    /\ Room
    /\ SetDC(draw(DC, p[1], p[2], mode, bb))
    /\ last_op' = [op |-> "draw", p |-> p, mode |-> mode, bb |-> bb, n_before |-> Len(current_annotations)]
    /\ UNCHANGED << db_vars, gui_vars, app_vars, budgets >>

DrawOnWebcam(p, mode, bb) ==
    /\ Room
    /\ SetDC(draw_on_webcam(DC, p[1], p[2], mode, bb))
    /\ last_op' = [op |-> "draw_on_webcam", p |-> p, mode |-> mode, bb |-> bb,
                   n_before |-> Len(current_annotations)]
    /\ UNCHANGED << db_vars, gui_vars, app_vars, budgets >>

Erase(p) ==
    /\ Room
    /\ SetDC(erase(DC, p[1], p[2]))
    /\ last_op' = [op |-> "erase", p |-> p, n_before |-> Len(current_annotations)]
    /\ UNCHANGED << db_vars, gui_vars, app_vars, budgets >>

ResetPoints(mode, bb) ==
    /\ SetDC(reset_points(DC, mode, bb))
    /\ last_op' = [op |-> "reset_points", mode |-> mode, bb |-> bb, n_before |-> Len(current_annotations)]
    /\ UNCHANGED << db_vars, gui_vars, app_vars, budgets >>

ClearCanvas ==
    /\ Room
    /\ SetDC(clear_canvas(DC))
    /\ last_op' = [op |-> "clear_canvas", n_before |-> Len(current_annotations)]
    /\ UNCHANGED << db_vars, gui_vars, app_vars, budgets >>

ChangeColor ==
    /\ tweaks < MaxTweaks
    /\ tweaks' = tweaks + 1
    /\ SetDC(change_color(DC))
    /\ last_op' = [op |-> "change_color", n_before |-> Len(current_annotations)]
    /\ UNCHANGED << db_vars, gui_vars, app_vars, frames, events >>

SetBrushSize(size) ==
    /\ tweaks < MaxTweaks
    /\ tweaks' = tweaks + 1
    /\ SetDC(set_brush_size(DC, <<size>>))
    /\ last_op' = [op |-> "set_brush_size", size |-> size, n_before |-> Len(current_annotations)]
    /\ UNCHANGED << db_vars, gui_vars, app_vars, frames, events >>

EngineInit == InitCommon /\ has_set_opacity = FALSE

EngineNext ==
    \/ \E p \in NormPoints, mode \in Tools : Draw(p, mode, FALSE)
    \/ \E p \in NormPoints, mode \in Tools : DrawOnWebcam(p, mode, FALSE)
    \/ \E p \in NormPoints : Erase(p)
    \/ \E mode \in Tools : ResetPoints(mode, FALSE)
    \/ ClearCanvas
    \/ ChangeColor
    \/ \E size \in BrushSizes : SetBrushSize(size)

EngineSpec == EngineInit /\ [][EngineNext]_vars

\* ShapeSpec: the engine driven on the slide target only (samples of every
\* tool, releases, clears)
ShapeNext ==
    \/ \E p \in NormPoints, mode \in Tools : Draw(p, mode, FALSE)
    \/ \E mode \in Tools : ResetPoints(mode, FALSE)
    \/ ClearCanvas

ShapeSpec == EngineInit /\ [][ShapeNext]_vars

\* ------------------------------------------------------------------------
\* Kinds of shape records in a log
\* ------------------------------------------------------------------------
\* a record appended by a shape sample carries 'coords'; the record appended
\* by reset_points does not
IsAnchorRec(a) ==
    a.type \in Shapes /\ a.coords # None /\ a.shape_start # None /\ a.shape_end = None
IsPreviewRec(a) ==
    a.type \in Shapes /\ a.coords # None /\ a.shape_start # None /\ a.shape_end # None
IsFinalRec(a) ==
    a.type \in Shapes /\ a.coords = None /\ a.shape_start # None /\ a.shape_end # None

\* buf2 is buf with the outline of the shape (anchor, end) painted on it, or buf
\* itself when the shape is degenerate
ShapePainted(buf2, buf, kind, anchor, end) ==
    LET d2 == (end[1] - anchor[1]) * (end[1] - anchor[1])
              + (end[2] - anchor[2]) * (end[2] - anchor[2])
        degenerate == IF kind = "circle" THEN d2 < 1
                      ELSE anchor[1] = end[1] \/ anchor[2] = end[2]
    IN IF degenerate THEN buf2 = buf
       ELSE /\ Len(buf2) = Len(buf) + 1
            /\ SubSeq(buf2, 1, Len(buf)) = buf
            /\ LET x == buf2[Len(buf2)]
               IN IF kind = "circle"
                  THEN x.op = "circle" /\ x.a = anchor
                       /\ x.r * x.r <= d2 /\ d2 < (x.r + 1) * (x.r + 1)
                  ELSE x.op = "rect"
                       /\ x.a = << Min(anchor[1], end[1]), Min(anchor[2], end[2]) >>
                       /\ x.b = << Max(anchor[1], end[1]), Max(anchor[2], end[2]) >>

\* the log ends with the anchor record of (anchor, kind, target) followed by
\* n drag records of the same shape, and nothing else
EndsWithDrag(log, anchor, kind, target, n) ==
    /\ Len(log) >= n + 1
    /\ LET k == Len(log) - n
       IN /\ IsAnchorRec(log[k]) /\ log[k].shape_start = anchor
          /\ log[k].type = kind /\ log[k].target = target
          /\ \A j \in (k + 1)..Len(log) :
                /\ IsPreviewRec(log[j]) /\ log[j].shape_start = anchor
                /\ log[j].type = kind /\ log[j].target = target

\* ------------------------------------------------------------------------
\* C5: shape finalize consolidation
\* ------------------------------------------------------------------------
\* C5. From an Idle tracker on the slide, an anchor sample, then two or more
\* drag samples of the same kind, then reset_points with that kind: the anchor
\* and drag records are replaced by one final record (shape_start = anchor,
\* shape_end = last drag sample), which is the last record of the log, and
\* the shape (anchor, last drag) is painted on the slide's main buffer.
C5_StepOK ==
    (/\ last_op'.op = "reset_points"
     /\ last_op'.mode \in Shapes
     /\ slide_shape_start # None
     /\ webcam_shape_start = None
     /\ \E n \in 2..Len(current_annotations) :
           EndsWithDrag(current_annotations, slide_shape_start, last_op'.mode,
                        "slide", n))
    => LET n == CHOOSE m \in 2..Len(current_annotations) :
                   EndsWithDrag(current_annotations, slide_shape_start,
                                last_op'.mode, "slide", m)
           k == Len(current_annotations) - n
           last_drag == current_annotations[Len(current_annotations)].shape_end
           fin == current_annotations'[Len(current_annotations')]
       IN /\ Len(current_annotations') = k
          /\ SubSeq(current_annotations', 1, k - 1) = SubSeq(current_annotations, 1, k - 1)
          /\ IsFinalRec(fin)
          /\ fin.type = last_op'.mode /\ fin.target = "slide"
          /\ fin.shape_start = slide_shape_start
          /\ fin.shape_end = last_drag
          /\ ShapePainted(canvas', canvas, last_op'.mode, slide_shape_start, last_drag)
          /\ slide_shape_start' = None

C5_FinalizeConsolidation == [][C5_StepOK]_vars

\* a release that consolidated an anchor and two drags with distinct ends
C5_Witness ==
    /\ last_op.op = "reset_points" /\ last_op.mode = "square"
    /\ last_op.n_before = 3
    /\ Len(current_annotations) = 1
    /\ IsFinalRec(current_annotations[1])
    /\ current_annotations[1].shape_start # current_annotations[1].shape_end
    /\ Len(canvas) = 1 /\ canvas[1].op = "rect"

\* ------------------------------------------------------------------------
\* C6: abandoned shape discard
\* ------------------------------------------------------------------------
\* C6. From an Idle tracker, a single anchor sample followed by reset_points
\* with the same kind: the log is again what it was before the anchor sample
\* (the anchor record is removed, no final record is added) and the main
\* buffers are unchanged.
C6_StepOK ==
    (/\ last_op'.op = "reset_points"
     /\ last_op'.mode \in Shapes
     /\ slide_shape_start # None
     /\ webcam_shape_start = None
     /\ EndsWithDrag(current_annotations, slide_shape_start, last_op'.mode, "slide", 0))
    => /\ current_annotations' =
            SubSeq(current_annotations, 1, Len(current_annotations) - 1)
       /\ canvas' = canvas
       /\ webcam_canvas' = webcam_canvas

C6_AbandonedShapeDiscard == [][C6_StepOK]_vars

\* a release right after an anchor sample, with an earlier record in the log
C6_Witness ==
    /\ last_op.op = "reset_points" /\ last_op.mode = "circle"
    /\ last_op.n_before = 2
    /\ Len(current_annotations) = 1
    /\ current_annotations[1].type = "pen"
    /\ Len(canvas) = 1
    /\ slide_shape_start = None

\* ------------------------------------------------------------------------
\* C7: no preview survives a release
\* ------------------------------------------------------------------------
\* C7. After any call to reset_points, whatever its mode argument, the
\* in-session log holds no anchor-only and no preview shape record.
C7_NoPreviewAfterRelease ==
    last_op.op = "reset_points" =>
        \A i \in 1..Len(current_annotations) :
            /\ ~IsAnchorRec(current_annotations[i])
            /\ ~IsPreviewRec(current_annotations[i])

\* ------------------------------------------------------------------------
\* ReplaySpec: load_annotations applied to record sequences
\* ------------------------------------------------------------------------
PtA == SlidePoint(100, 100)
PtB == SlidePoint(300, 200)
PtC == << 960, 540 >>

\* what a loaded sequence may hold: records as the engine writes them, an
\* erase record at the centre of the slide whose target is not 'both', an
\* item that is no dict, a record of an unknown type, and a pen record whose
\* coords is a list of three numbers
ReplayItems ==
    { Ann("pen", PtA, None, None, None, colors[1], <<5>>, "slide"),
      Ann("pen", PtB, PtA, None, None, colors[1], <<5>>, "slide"),
      Ann("square", None, None, PtA, PtB, colors[2], <<5>>, "slide"),
      Ann("circle", None, None, WebcamPoint(100, 100), WebcamPoint(300, 200),
          colors[1], <<2>>, "webcam"),
      Ann("erase", PtB, None, None, None, None, <<10>>, "both"),
      Ann("clear_canvas", None, None, None, None, None, None, "both"),
      Ann("circle", PtA, None, PtA, None, colors[1], <<5>>, "slide"),
      Ann(NonDict, None, None, None, None, None, None, NoKey),
      Ann("erase", PtC, None, None, None, None, <<20>>, "slide"),
      Ann("triangle", PtA, None, PtA, PtB, colors[1], <<5>>, "slide"),
      Ann("pen", <<PtB[1], PtB[2], 0>>, None, None, None, colors[3], <<5>>, "slide") }

ReplayInputs == UNION { [1..n -> ReplayItems] : n \in 0..MaxReplay }

\* the replay of one sequence on the freshly constructed canvas
LoadAnnotations(annotations) ==
    /\ last_op.op = "init"
    /\ SetDC(load_annotations(DC, annotations))
    /\ last_op' = [op |-> "load_annotations", annotations |-> annotations]
    /\ UNCHANGED << db_vars, gui_vars, app_vars, budgets >>

ReplayInit == InitCommon /\ has_set_opacity = FALSE

ReplayNext == \E annotations \in ReplayInputs : LoadAnnotations(annotations)

ReplaySpec == ReplayInit /\ [][ReplayNext]_vars

\* the records of R after its last clear_canvas record, all of R when none
SuffixAfterLastClear(R) ==
    LET clears == { i \in 1..Len(R) : R[i].type = "clear_canvas" }
    IN IF clears = {} THEN R
       ELSE SubSeq(R, (CHOOSE i \in clears : \A j \in clears : j <= i) + 1, Len(R))

\* ------------------------------------------------------------------------
\* C1: clear truncation
\* ------------------------------------------------------------------------
\* C1. After load_annotations(R) the slide and webcam buffers are those that
\* replaying only the records after the last clear_canvas of R produces.
C1_ClearTruncation ==
    last_op.op = "load_annotations" =>
        LET suffix == load_annotations(DC, SuffixAfterLastClear(last_op.annotations))
        IN /\ canvas = suffix.canvas
           /\ webcam_canvas = suffix.webcam_canvas

\* a replay of [rendered record, clear_canvas, rendered record]
C1_Witness ==
    /\ last_op.op = "load_annotations"
    /\ Len(last_op.annotations) = 3
    /\ last_op.annotations[2].type = "clear_canvas"
    /\ render_all(<<last_op.annotations[1]>>, brush_size).canvas # Blank
    /\ Len(canvas) = 1

\* ------------------------------------------------------------------------
\* The application: Database, AppGUI and MainApp around the engine
\* ------------------------------------------------------------------------
\* The whole program state as one value.  A handler is an operator from such
\* a value to the SET of states it may end in: a save_annotation call may
\* succeed or fail, and rows with equal created_at may be read in any order.
\* `saves` lists the save_annotation calls the handler made, with their
\* results, and `acts` the major actions a frame performed (slide navigation,
\* screenshot, fullscreen toggle, clear canvas).
St == [dc |-> DC, table |-> annotations_table, failures |-> failures,
       user |-> current_user_id, slides |-> slides, set_id |-> current_set_id,
       index |-> current_slide_index, drawing_mode |-> drawing_mode,
       draw_location |-> draw_location, current_mode |-> current_mode,
       last_mode |-> last_mode,
       last_draw_action_time |-> last_draw_action_time,
       last_action_time |-> last_action_time,
       last_color_change_time |-> last_color_change_time,
       last_gesture_time |-> last_gesture_time,
       frame_error |-> frame_error, saves |-> <<>>, acts |-> <<>>]

SetSt(s) ==
    /\ SetDC(s.dc)
    /\ annotations_table' = s.table
    /\ failures' = s.failures
    /\ current_user_id' = s.user
    /\ slides' = s.slides
    /\ current_set_id' = s.set_id
    /\ current_slide_index' = s.index
    /\ drawing_mode' = s.drawing_mode
    /\ draw_location' = s.draw_location
    /\ current_mode' = s.current_mode
    /\ last_mode' = s.last_mode
    /\ last_draw_action_time' = s.last_draw_action_time
    /\ last_action_time' = s.last_action_time
    /\ last_color_change_time' = s.last_color_change_time
    /\ last_gesture_time' = s.last_gesture_time
    /\ frame_error' = s.frame_error

\* the one registered user, and the slide ids of that user's one slide set
TheUser == <<1>>
TheSet == <<1>>
SetSlides == <<1, 2>>

\* ---- Database ----
\* save_annotation(slide_id, user_id, data): the states after the call.  The
\* row gets created_at = NOW(), a TIMESTAMP of one-second resolution.  json
\* dumps/loads of a record keeps its keys, numbers and nulls and turns its
\* tuples into lists, which is what a point is here already.
save_annotation(s, slide_id, data) ==
    { [s EXCEPT !.table = Append(@, [slide_id |-> slide_id, data |-> data,
                                     created_at |-> now \div 10]),
                !.saves = Append(@, [data |-> data, ok |-> TRUE])] }
    \cup
    { [s EXCEPT !.failures = @ + 1,
                !.saves = Append(@, [data |-> data, ok |-> FALSE])] :
      x \in IF s.failures < MaxFailures THEN {1} ELSE {} }

\* the positions of the rows of a slide, in insertion order
RowsOf(table, slide_id) ==
    LET F[i \in 0..Len(table)] ==
            IF i = 0 THEN <<>>
            ELSE IF table[i].slide_id = slide_id THEN Append(F[i - 1], i)
                 ELSE F[i - 1]
    IN F[Len(table)]

\* SELECT data ... WHERE slide_id AND user_id ORDER BY created_at: every
\* order of the slide's rows that is sorted by created_at; the order of rows
\* with equal created_at is the server's choice
db_load_annotations(table, slide_id) ==
    LET rows == RowsOf(table, slide_id)
        n == Len(rows)
        orders == { f \in [1..n -> 1..n] :
                      /\ \A i, j \in 1..n : i # j => f[i] # f[j]
                      /\ \A i \in 1..(n - 1) :
                            table[rows[f[i]]].created_at
                                <= table[rows[f[i + 1]]].created_at }
    IN { [i \in 1..n |-> table[rows[f[i]]].data] : f \in orders }

\* ---- AppGUI ----
\* is_blackboard_mode(): the blackboard is off at start-up and none of the
\* events below toggles it
is_blackboard_mode == FALSE

ValidIndex(s) == s.slides # <<>> /\ 0 <= s.index /\ s.index < Len(s.slides)

\* the `for annotation in temp_list` loop of save_current_annotations from
\* position i on: a record whose save fails is appended to the log again
RECURSIVE flush_from(_, _, _, _)
flush_from(s, slide_id, temp_list, i) ==
    IF i > Len(temp_list) THEN {s}
    ELSE UNION { flush_from(
                    IF r.saves[Len(r.saves)].ok THEN r
                    ELSE [r EXCEPT !.dc.current_annotations =
                                       Append(@, temp_list[i])],
                    slide_id, temp_list, i + 1) :
                 r \in save_annotation(s, slide_id, temp_list[i]) }

\* save_current_annotations that does not empty the log before the loop
save_current_annotations_no_drain(s) ==
    IF s.user # None /\ ValidIndex(s) /\ s.dc.current_annotations # <<>>
    THEN flush_from(s, s.slides[s.index + 1], s.dc.current_annotations, 1)
    ELSE {s}

\* save_current_annotations()
save_current_annotations(s) ==
    IF s.user # None /\ ValidIndex(s) /\ s.dc.current_annotations # <<>>
    THEN flush_from([s EXCEPT !.dc.current_annotations = <<>>],
                    s.slides[s.index + 1], s.dc.current_annotations, 1)
    ELSE {s}

\* clear_canvas() followed by current_annotations = []
clear_and_forget(s) ==
    [s EXCEPT !.dc = [clear_canvas(s.dc) EXCEPT !.current_annotations = <<>>]]

\* display_slide(): every slide image of the set loads
display_slide(s) ==
    IF ~ValidIndex(s) THEN { clear_and_forget(s) }
    ELSE IF s.user # None
         THEN { [s EXCEPT !.dc = load_annotations(s.dc, annotations)] :
                annotations \in db_load_annotations(s.table, s.slides[s.index + 1]) }
         ELSE {s}

\* navigate_slide(direction): the states after the call, each with the
\* value returned
navigate_slide(s, direction) ==
    IF s.slides = <<>> THEN { [st |-> s, ret |-> FALSE] }
    ELSE LET new_index == IF s.index = -1 /\ direction > 0 THEN 0
                          ELSE s.index + direction
         IN IF 0 <= new_index /\ new_index < Len(s.slides)
            THEN { [st |-> d, ret |-> TRUE] :
                   d \in UNION { display_slide([f EXCEPT !.index = new_index]) :
                                 f \in IF s.index # -1
                                       THEN save_current_annotations(s)
                                       ELSE {s} } }
            ELSE { [st |-> s, ret |-> FALSE] }

\* ---- GestureController ----
GESTURE_COOLDOWN == 8        \* 0.8 s
ACTION_COOLDOWN == 7         \* 0.7 s
COLOR_CHANGE_DELAY == 7      \* 0.7 s

DrawGesture == <<0, 1, 1, 0, 0>>
EraseGesture == <<0, 1, 1, 1, 0>>
PresentGesture == <<0, 1, 0, 0, 1>>
IndexOnly == <<0, 1, 0, 0, 0>>
ThumbOnly == <<1, 0, 0, 0, 0>>
AllUp == <<1, 1, 1, 1, 1>>
NoFingers == <<0, 0, 0, 0, 0>>
ScreenshotGesture == <<1, 1, 1, 0, 0>>
FullscreenGesture == <<0, 0, 1, 1, 0>>

\* detect_mode that accepts a mode gesture at any time
detect_mode_no_cooldown(s, fingers) ==
    IF fingers = DrawGesture
    THEN [s EXCEPT !.current_mode = DRAWING_MODE, !.last_gesture_time = now]
    ELSE IF fingers = EraseGesture
         THEN [s EXCEPT !.current_mode = ERASING_MODE, !.last_gesture_time = now]
    ELSE IF fingers = PresentGesture
         THEN [s EXCEPT !.current_mode = PRESENTATION_MODE, !.last_gesture_time = now]
    ELSE s

\* detect_mode(fingers)
detect_mode(s, fingers) ==
    IF now - s.last_gesture_time < GESTURE_COOLDOWN THEN s
    ELSE IF fingers = DrawGesture
         THEN [s EXCEPT !.current_mode = DRAWING_MODE, !.last_gesture_time = now]
    ELSE IF fingers = EraseGesture
         THEN [s EXCEPT !.current_mode = ERASING_MODE, !.last_gesture_time = now]
    ELSE IF fingers = PresentGesture
         THEN [s EXCEPT !.current_mode = PRESENTATION_MODE, !.last_gesture_time = now]
    ELSE s

\* all(fingers)
all(fingers) == \A i \in 1..Len(fingers) : fingers[i] # 0

\* ---- MainApp.handle_gestures ----
\* x_norm, y_norm of the index finger tip lm_list[8] = (x_raw, y_raw)
Normalize(tip) ==
    << Min(Max(TruncDiv(tip[1] * NORM_WIDTH, WEBCAM_WIDTH), 0), NORM_WIDTH - 1),
       Min(Max(TruncDiv(tip[2] * NORM_HEIGHT, WEBCAM_HEIGHT), 0), NORM_HEIGHT - 1) >>

\* lines 139-146: the mode shown changed
mode_change(s) ==
    IF s.last_mode # <<s.current_mode>>
    THEN [s EXCEPT !.last_mode = <<s.current_mode>>,
                   !.dc = reset_points(@, "pen", FALSE),
                   !.last_draw_action_time = 0]
    ELSE s

\* lines 154-184
presentation_branch(s, fingers, can_perform_action) ==
    LET s1 == [s EXCEPT !.dc = reset_points(@, "pen", FALSE),
                        !.last_draw_action_time = 0]
    IN IF fingers \in {IndexOnly, ThumbOnly} /\ can_perform_action THEN
           { IF r.ret
             THEN [r.st EXCEPT !.last_action_time = now,
                               !.acts = Append(@, "navigate_slide")]
             ELSE r.st :
             r \in navigate_slide(s1, IF fingers = IndexOnly THEN 1 ELSE -1) }
       ELSE IF fingers = ScreenshotGesture /\ can_perform_action THEN
           { [s1 EXCEPT !.last_action_time = now,
                        !.acts = Append(@, "take_screenshot")] }
       ELSE IF fingers = FullscreenGesture /\ can_perform_action THEN
           { [s1 EXCEPT !.last_action_time = now,
                        !.acts = Append(@, "toggle_fullscreen")] }
       ELSE { s1 }

\* lines 193-243: one drawing sample and its save
draw_sample(s, tip) ==
    LET p == Normalize(tip)
        d1 == IF s.draw_location \in {"slide", "both"}
              THEN draw(s.dc, p[1], p[2], s.drawing_mode, is_blackboard_mode)
              ELSE s.dc
        d2 == IF s.draw_location \in {"webcam", "both"}
              THEN draw_on_webcam(d1, p[1], p[2], s.drawing_mode, is_blackboard_mode)
              ELSE d1
        s1 == [s EXCEPT !.dc = d2, !.last_draw_action_time = now]
    IN IF s.user # None /\ ValidIndex(s)
       THEN save_annotation(s1, s.slides[s.index + 1],
                            d2.current_annotations[Len(d2.current_annotations)])
       ELSE { s1 }

\* the `for ann in list(final_annotations)` loop from position i on
RECURSIVE save_all_from(_, _, _, _)
save_all_from(s, slide_id, list, i) ==
    IF i > Len(list) THEN {s}
    ELSE UNION { save_all_from(r, slide_id, list, i + 1) :
                 r \in save_annotation(s, slide_id, list[i]) }

\* lines 246-277: the index finger is down
finger_lift(s) ==
    IF s.last_draw_action_time = 0 THEN { s }
    ELSE LET s1 == [s EXCEPT !.dc = reset_points(@, s.drawing_mode, is_blackboard_mode),
                             !.last_draw_action_time = 0]
             final_annotations == s1.dc.current_annotations
         IN IF final_annotations # <<>> /\ s.user # None /\ ValidIndex(s)
            THEN { [r EXCEPT !.dc.current_annotations = <<>>] :
                   r \in save_all_from(s1, s.slides[s.index + 1],
                                       final_annotations, 1) }
            ELSE { s1 }

\* lines 279-286
color_gesture(s, fingers) ==
    IF all(fingers) /\ now - s.last_color_change_time > COLOR_CHANGE_DELAY
    THEN [s EXCEPT !.dc = change_color(@), !.last_color_change_time = now]
    ELSE s

\* lines 187-286.  brush_size_slider.value() is the canvas's brush size: the
\* slider's valueChanged handler sets the one from the other.  A canvas
\* without set_opacity ends the frame at line 190 with AttributeError.
drawing_branch(s, fingers, tip) ==
    LET s1 == [s EXCEPT !.dc = set_brush_size(@, <<s.dc.brush_size>>)]
    IN IF ~has_set_opacity THEN { [s1 EXCEPT !.frame_error = TRUE] }
       ELSE { color_gesture(r, fingers) :
              r \in IF fingers[2] = 1 /\ tip # None THEN draw_sample(s1, tip)
                    ELSE finger_lift(s1) }

\* lines 291-324: one erase sample, its save and the pop of its record
erase_sample(s, tip) ==
    LET p == Normalize(tip)
        s1 == [s EXCEPT !.dc = erase(@, p[1], p[2]), !.last_draw_action_time = now]
        log == s1.dc.current_annotations
    IN IF s.user # None /\ ValidIndex(s)
       THEN { [r EXCEPT !.dc.current_annotations = SubSeq(log, 1, Len(log) - 1)] :
              r \in save_annotation(s1, s.slides[s.index + 1], log[Len(log)]) }
       ELSE { s1 }

\* lines 289-338
erasing_branch(s, fingers, tip, can_perform_action) ==
    LET after == IF fingers[2] = 1 /\ tip # None THEN erase_sample(s, tip)
                 ELSE IF s.last_draw_action_time # 0
                      THEN { [s EXCEPT !.dc = reset_points(@, "pen", FALSE),
                                       !.last_draw_action_time = 0] }
                      ELSE { s }
    IN { IF all(fingers) /\ can_perform_action
         THEN [r EXCEPT !.dc = clear_canvas(@), !.last_action_time = now,
                        !.acts = Append(@, "clear_canvas")]
         ELSE r : r \in after }

\* handle_gestures without the cooldown of major actions
handle_gestures_no_action_cooldown(s, fingers, tip) ==
    LET s1 == mode_change(detect_mode(s, fingers))
        can_perform_action == TRUE
    IN IF s1.current_mode = PRESENTATION_MODE
       THEN presentation_branch(s1, fingers, can_perform_action)
       ELSE IF s1.current_mode = DRAWING_MODE
       THEN drawing_branch(s1, fingers, tip)
       ELSE IF s1.current_mode = ERASING_MODE
       THEN erasing_branch(s1, fingers, tip, can_perform_action)
       ELSE { s1 }

\* handle_gestures(fingers, lm_list, img); tip is lm_list[8] without its id,
\* None when no hand was found
handle_gestures(s, fingers, tip) ==
    LET s1 == mode_change(detect_mode(s, fingers))
        can_perform_action == now - s.last_action_time > ACTION_COOLDOWN
    IN IF s1.current_mode = PRESENTATION_MODE
       THEN presentation_branch(s1, fingers, can_perform_action)
       ELSE IF s1.current_mode = DRAWING_MODE
       THEN drawing_branch(s1, fingers, tip)
       ELSE IF s1.current_mode = ERASING_MODE
       THEN erasing_branch(s1, fingers, tip, can_perform_action)
       ELSE { s1 }

\* ------------------------------------------------------------------------
\* Spec: the application driven by frames, GUI events and the clock
\* ------------------------------------------------------------------------
\* finger patterns of a frame, and positions of the index finger tip in the
\* 1280 x 720 webcam frame
Fingers == { DrawGesture, EraseGesture, PresentGesture, IndexOnly, AllUp, NoFingers }
Tips == { <<160, 120>>, <<480, 240>> }
Locations == {"slide", "webcam", "both"}

\* the outcomes that stay within the bounds of the model
InBounds(s) ==
    /\ Len(s.dc.current_annotations) <= MaxLog
    /\ Len(s.table) <= MaxStore

Running == last_op.op # "closeEvent"

\* handle_login() of a registered user, with load_slide_sets()
HandleLogin ==
    /\ Running
    /\ events < MaxEvents
    /\ events' = events + 1
    /\ current_user_id = None
    /\ SetSt(clear_and_forget([St EXCEPT !.user = TheUser, !.slides = <<>>,
                                         !.index = -1, !.set_id = None]))
    /\ last_op' = [op |-> "handle_login"]
    /\ UNCHANGED << now, has_set_opacity, tweaks, frames >>

\* load_slides(item), item the user's slide set
load_slides(s) ==
    LET flushed == IF s.set_id # None /\ s.index # -1
                   THEN save_current_annotations(s) ELSE {s}
    IN UNION { IF f.set_id = TheSet
               THEN IF f.index = -1 /\ f.slides # <<>>
                    THEN display_slide([f EXCEPT !.index = 0])
                    ELSE {f}
               ELSE display_slide([f EXCEPT !.set_id = TheSet,
                                            !.slides = SetSlides,
                                            !.index = 0]) :
               f \in flushed }

LoadSlides ==
    /\ Running
    /\ events < MaxEvents
    /\ events' = events + 1
    /\ current_user_id # None
    /\ \E r \in load_slides(St) :
          /\ InBounds(r)
          /\ SetSt(r)
          /\ last_op' = [op |-> "load_slides", saves |-> r.saves]
    /\ UNCHANGED << now, has_set_opacity, tweaks, frames >>

\* display_selected_slide(item), item row new_index of the slide list
display_selected_slide(s, new_index) ==
    IF 0 <= new_index /\ new_index < Len(s.slides) /\ new_index # s.index
    THEN UNION { display_slide([f EXCEPT !.index = new_index]) :
                 f \in save_current_annotations(s) }
    ELSE {s}

DisplaySelectedSlide(new_index) ==
    /\ Running
    /\ events < MaxEvents
    /\ events' = events + 1
    /\ current_user_id # None
    /\ slides # <<>>
    /\ \E r \in display_selected_slide(St, new_index) :
          /\ InBounds(r)
          /\ SetSt(r)
          /\ last_op' = [op |-> "display_selected_slide", saves |-> r.saves]
    /\ UNCHANGED << now, has_set_opacity, tweaks, frames >>

\* keyPressEvent: Right / PageDown (direction 1), Left / PageUp (direction -1)
KeyNavigate(direction) ==
    /\ Running
    /\ events < MaxEvents
    /\ events' = events + 1
    /\ current_user_id # None
    /\ \E r \in navigate_slide(St, direction) :
          /\ InBounds(r.st)
          /\ SetSt(r.st)
          /\ last_op' = [op |-> "navigate_slide", saves |-> r.st.saves]
    /\ UNCHANGED << now, has_set_opacity, tweaks, frames >>

\* handle_logout(), confirmed
handle_logout(s) ==
    { clear_and_forget([f EXCEPT !.user = None, !.slides = <<>>, !.index = -1]) :
      f \in save_current_annotations(s) }

HandleLogout ==
    /\ Running
    /\ events < MaxEvents
    /\ events' = events + 1
    /\ current_user_id # None
    /\ \E r \in handle_logout(St) :
          /\ InBounds(r)
          /\ SetSt(r)
          /\ last_op' = [op |-> "handle_logout", saves |-> r.saves]
    /\ UNCHANGED << now, has_set_opacity, tweaks, frames >>

\* closeEvent(event), confirmed: the flush at exit
CloseEvent ==
    /\ Running
    /\ events < MaxEvents
    /\ events' = events + 1
    /\ \E r \in save_current_annotations(St) :
          /\ InBounds(r)
          /\ SetSt(r)
          /\ last_op' = [op |-> "closeEvent", saves |-> r.saves]
    /\ UNCHANGED << now, has_set_opacity, tweaks, frames >>

\* set_drawing_mode(mode): a tool button
SetDrawingMode(mode) ==
    /\ Running
    /\ current_user_id # None
    /\ tweaks < MaxTweaks
    /\ tweaks' = tweaks + 1
    /\ drawing_mode' = mode
    /\ last_op' = [op |-> "set_drawing_mode"]
    /\ UNCHANGED << canvas_vars, db_vars, current_user_id, slides, current_set_id,
                    current_slide_index, draw_location, app_vars, frames, events >>

\* update_draw_location(): the drawing-target combo box
UpdateDrawLocation(location) ==
    /\ Running
    /\ current_user_id # None
    /\ tweaks < MaxTweaks
    /\ tweaks' = tweaks + 1
    /\ draw_location' = location
    /\ last_op' = [op |-> "update_draw_location"]
    /\ UNCHANGED << canvas_vars, db_vars, current_user_id, slides, current_set_id,
                    current_slide_index, drawing_mode, app_vars, frames, events >>

\* update_brush_size(): the brush-size slider moved to `size`
UpdateBrushSize(size) ==
    /\ Running
    /\ current_user_id # None
    /\ tweaks < MaxTweaks
    /\ tweaks' = tweaks + 1
    /\ SetDC(set_brush_size(DC, <<size>>))
    /\ last_op' = [op |-> "update_brush_size"]
    /\ UNCHANGED << db_vars, gui_vars, app_vars, frames, events >>

\* process_frame(): one frame of the timer, with the fingers and the index
\* finger tip the detector reports (no hand: no fingers, no tip)
ProcessFrame(fingers, tip) ==
    /\ Running
    /\ current_user_id # None
    /\ tip = None => fingers = NoFingers
    /\ frames < MaxFrames
    /\ frames' = frames + 1
    /\ \E r \in handle_gestures(St, fingers, tip) :
          /\ InBounds(r)
          /\ SetSt(r)
          /\ last_op' = [op |-> "handle_gestures", saves |-> r.saves]
    /\ UNCHANGED << now, has_set_opacity, tweaks, events >>

\* time passes
Tick ==
    /\ Running
    /\ now + TickStep <= MaxTime
    /\ now' = now + TickStep
    /\ last_op' = [op |-> "tick"]
    /\ UNCHANGED << canvas_vars, annotations_table, failures, gui_vars, app_vars,
                    budgets >>

Init == InitCommon /\ has_set_opacity \in BOOLEAN

Next ==
    \/ HandleLogin
    \/ LoadSlides
    \/ \E new_index \in 0..1 : DisplaySelectedSlide(new_index)
    \/ \E direction \in {1, -1} : KeyNavigate(direction)
    \/ HandleLogout
    \/ CloseEvent
    \/ \E mode \in Tools : SetDrawingMode(mode)
    \/ \E location \in Locations : UpdateDrawLocation(location)
    \/ \E size \in BrushSizes : UpdateBrushSize(size)
    \/ \E fingers \in Fingers, tip \in Tips \cup {None} : ProcessFrame(fingers, tip)
    \/ Tick

Spec == Init /\ [][Next]_vars

\* ------------------------------------------------------------------------
\* Pixels of a buffer
\* ------------------------------------------------------------------------
Sq(x) == x * x
Dist2(p, q) == Sq(p[1] - q[1]) + Sq(p[2] - q[2])

\* whether the paint call x colours pixel p.  A line of thickness t covers
\* the pixels within t/2 of the segment, an outline of thickness t those
\* within t/2 of the curve, a disc those within its radius.
Covers(x, p) ==
    IF x.op = "disc" THEN Dist2(p, x.a) <= Sq(x.r)
    ELSE IF x.op = "line" THEN
        LET dx == x.b[1] - x.a[1]
            dy == x.b[2] - x.a[2]
            vx == p[1] - x.a[1]
            vy == p[2] - x.a[2]
            dd == dx * dx + dy * dy
            along == vx * dx + vy * dy
            cross == vx * dy - vy * dx
        IN IF dd = 0 \/ along <= 0 THEN 4 * Dist2(p, x.a) <= Sq(x.size)
           ELSE IF along >= dd THEN 4 * Dist2(p, x.b) <= Sq(x.size)
           ELSE 4 * cross * cross <= Sq(x.size) * dd
    ELSE IF x.op = "circle" THEN
        /\ 4 * Dist2(p, x.a) <= Sq(2 * x.r + x.size)
        /\ Sq(Max(0, 2 * x.r - x.size)) <= 4 * Dist2(p, x.a)
    ELSE \* "rect"
        /\ 2 * x.a[1] - x.size <= 2 * p[1] /\ 2 * p[1] <= 2 * x.b[1] + x.size
        /\ 2 * x.a[2] - x.size <= 2 * p[2] /\ 2 * p[2] <= 2 * x.b[2] + x.size
        /\ ~ (/\ 2 * x.a[1] + x.size < 2 * p[1] /\ 2 * p[1] < 2 * x.b[1] - x.size
              /\ 2 * x.a[2] + x.size < 2 * p[2] /\ 2 * p[2] < 2 * x.b[2] - x.size)

\* the colour of pixel p of a buffer: that of the last paint call covering it
PixelAt(buf, p) ==
    LET F[i \in 0..Len(buf)] ==
            IF i = 0 THEN Black
            ELSE IF Covers(buf[i], p) THEN buf[i].color ELSE F[i - 1]
    IN F[Len(buf)]

\* pixels of the slide buffer that are looked at: the two sample points and
\* the middle of the segment between them
Probes == { PtA, PtB, << (PtA[1] + PtB[1]) \div 2, (PtA[2] + PtB[2]) \div 2 >> }

SamePixels(buf1, buf2) == \A p \in Probes : PixelAt(buf1, p) = PixelAt(buf2, p)

\* the save_annotation calls of the last step
Saves ==
    IF last_op.op \in {"handle_gestures", "load_slides", "display_selected_slide",
                       "navigate_slide", "handle_logout", "closeEvent"}
    THEN last_op.saves ELSE <<>>

\* the records persisted for a slide, in the order of their insertion
PersistedFor(slide_id) ==
    LET rows == RowsOf(annotations_table, slide_id)
    IN [i \in 1..Len(rows) |-> annotations_table[rows[i]].data]

C4_FailedSaveRetained ==
    \A i \in 1..Len(Saves) :
        ~Saves[i].ok =>
            \E j \in 1..Len(current_annotations) :
                current_annotations[j] = Saves[i].data

\* ------------------------------------------------------------------------
\* StoreSpec: the Database alone, rows saved as the clock advances
\* ------------------------------------------------------------------------
StoreItems ==
    { Ann("pen", PtA, None, None, None, colors[1], <<5>>, "slide"),
      Ann("erase", PtA, None, None, None, None, <<10>>, "both"),
      Ann("clear_canvas", None, None, None, None, None, None, "both") }

\* save_annotation(slide_id, user_id, data)
SaveAnnotation(slide_id, data) ==
    /\ \E r \in save_annotation(St, slide_id, data) :
          /\ InBounds(r)
          /\ SetSt(r)
          /\ last_op' = [op |-> "save_annotation", slide_id |-> slide_id,
                         saves |-> r.saves]
    /\ UNCHANGED << now, has_set_opacity, budgets >>

StoreInit == InitCommon /\ has_set_opacity = FALSE

StoreNext ==
    \/ \E slide_id \in 1..Len(SetSlides), data \in StoreItems :
          SaveAnnotation(slide_id, data)
    \/ Tick

StoreSpec == StoreInit /\ [][StoreNext]_vars

\* ------------------------------------------------------------------------
\* C8: load order of the annotations table
\* ------------------------------------------------------------------------
\* C8. For every slide, the one sequence Database.load_annotations can
\* return is that of the slide's records in the order of their insertion,
\* also when records were inserted within the same second.
C8_LoadInInsertionOrder ==
    \A slide_id \in 1..Len(SetSlides) :
        db_load_annotations(annotations_table, slide_id) = { PersistedFor(slide_id) }

\* ------------------------------------------------------------------------
\* EndToEndSpec: pen stroke, clear, square, release, flush on one slide
\* ------------------------------------------------------------------------
ScriptPoints == { <<10, 10>>, <<50, 50>>, <<100, 100>> }

\* the script has taken its step k (k = 0: the slide has just been loaded)
ScriptAt(k) ==
    IF k = 0 THEN last_op.op = "load_slides"
    ELSE last_op.op \in {"script_draw", "script_clear_canvas", "script_reset_points"}
         /\ last_op.step = k

\* steps 1, 2, 4 and 5: a draw sample on the slide
ScriptDraw(k, p, mode) ==
    /\ ScriptAt(k - 1)
    /\ SetDC(draw(DC, p[1], p[2], mode, FALSE))
    /\ last_op' = [op |-> "script_draw", step |-> k,
                   samples |-> IF k = 1 THEN <<p>> ELSE Append(last_op.samples, p)]
    /\ UNCHANGED << db_vars, gui_vars, app_vars, budgets >>

\* step 3
ScriptClearCanvas ==
    /\ ScriptAt(2)
    /\ SetDC(clear_canvas(DC))
    /\ last_op' = [op |-> "script_clear_canvas", step |-> 3,
                   samples |-> last_op.samples]
    /\ UNCHANGED << db_vars, gui_vars, app_vars, budgets >>

\* step 6
ScriptResetPoints ==
    /\ ScriptAt(5)
    /\ SetDC(reset_points(DC, "square", FALSE))
    /\ last_op' = [op |-> "script_reset_points", step |-> 6,
                   samples |-> last_op.samples]
    /\ UNCHANGED << db_vars, gui_vars, app_vars, budgets >>

\* step 7: the flush
ScriptFlush ==
    /\ ScriptAt(6)
    /\ \E r \in save_current_annotations(St) :
          /\ SetSt(r)
          /\ last_op' = [op |-> "script_flush", saves |-> r.saves,
                         samples |-> last_op.samples]
    /\ UNCHANGED << now, has_set_opacity, budgets >>

EndToEndInit == InitCommon /\ has_set_opacity = FALSE

EndToEndNext ==
    \/ HandleLogin
    \/ last_op.op = "handle_login" /\ LoadSlides
    \/ \E p \in ScriptPoints : ScriptDraw(1, p, "pen")
    \/ \E p \in ScriptPoints : ScriptDraw(2, p, "pen")
    \/ ScriptClearCanvas
    \/ \E p \in ScriptPoints : ScriptDraw(4, p, "square")
    \/ \E p \in ScriptPoints : ScriptDraw(5, p, "square")
    \/ ScriptResetPoints
    \/ ScriptFlush

EndToEndSpec == EndToEndInit /\ [][EndToEndNext]_vars

\* ------------------------------------------------------------------------
\* C10: the end-to-end scenario
\* ------------------------------------------------------------------------
\* C10. After the script (pen samples p1 and p2, clear_canvas, square anchor
\* a and drag d, reset_points('square')) and a flush in which every save
\* succeeds, the slide's persisted records are, in this order: the pen start
\* at p1 without prev_coords, the pen segment from p1 to p2, the clear_canvas
\* marker, the final square from a to d; and their replay paints the square
\* (a, d) and nothing else on the slide buffer.
C10_EndToEnd ==
    (/\ last_op.op = "script_flush"
     /\ \A i \in 1..Len(last_op.saves) : last_op.saves[i].ok)
    => LET R == PersistedFor(1)
           p1 == SlidePoint(last_op.samples[1][1], last_op.samples[1][2])
           p2 == SlidePoint(last_op.samples[2][1], last_op.samples[2][2])
           a == SlidePoint(last_op.samples[3][1], last_op.samples[3][2])
           d == SlidePoint(last_op.samples[4][1], last_op.samples[4][2])
       IN /\ Len(annotations_table) = 4
          /\ Len(R) = 4
          /\ R[1].type = "pen" /\ R[1].coords = p1 /\ R[1].prev_coords = None
          /\ R[2].type = "pen" /\ R[2].coords = p2 /\ R[2].prev_coords = p1
          /\ R[3].type = "clear_canvas"
          /\ IsFinalRec(R[4]) /\ R[4].type = "square" /\ R[4].target = "slide"
          /\ R[4].shape_start = a /\ R[4].shape_end = d
          /\ current_annotations = <<>>
          /\ ShapePainted(load_annotations(NewCanvas, R).canvas, Blank, "square", a, d)
          /\ load_annotations(NewCanvas, R).webcam_canvas = Blank

\* the script run with a stroke from (10, 10) to (50, 50) and a square from
\* (10, 10) to (50, 50), every save of the flush successful
C10_Witness ==
    /\ last_op.op = "script_flush"
    /\ Len(last_op.saves) = 4
    /\ \A i \in 1..4 : last_op.saves[i].ok
    /\ last_op.samples = << <<10, 10>>, <<50, 50>>, <<10, 10>>, <<50, 50>> >>
    /\ Len(load_annotations(NewCanvas, PersistedFor(1)).canvas) = 1

\* ------------------------------------------------------------------------
\* SampleSpec: the engine driven on both targets by samples inside and
\* outside the normalized space
\* ------------------------------------------------------------------------
\* a sample left of the space and far below it (the one of the spec's
\* clamping example), and a sample inside it whose scaled value is no integer
SamplePoints == { <<-5, 10000>>, <<2, 2>> }

SampleRoom == Len(current_annotations) < MaxSampleLog

SampleNext ==
    \/ \E p \in SamplePoints, mode \in Tools : SampleRoom /\ Draw(p, mode, FALSE)
    \/ \E p \in SamplePoints, mode \in Tools : SampleRoom /\ DrawOnWebcam(p, mode, FALSE)
    \/ \E p \in SamplePoints : SampleRoom /\ Erase(p)
    \/ \E mode \in Tools : ResetPoints(mode, FALSE)

SampleSpec == EngineInit /\ [][SampleNext]_vars

\* the pixel space of the surface a record was created for; an erase record
\* (target 'both') is in slide space
InSurface(pt, target) ==
    IF target = "webcam"
    THEN pt[1] \in 0..(WEBCAM_WIDTH - 1) /\ pt[2] \in 0..(WEBCAM_HEIGHT - 1)
    ELSE pt[1] \in 0..(SLIDE_WIDTH - 1) /\ pt[2] \in 0..(SLIDE_HEIGHT - 1)

\* the points a record stores
StoredPoints(a) ==
    { pt \in {a.coords, a.prev_coords, a.shape_start, a.shape_end} : pt # None }

\* ------------------------------------------------------------------------
\* C11: stored coordinates lie on the target surface
\* ------------------------------------------------------------------------
\* C11. Every coordinate stored in a record appended by draw, draw_on_webcam,
\* erase or reset_points lies within [0, width-1] x [0, height-1] of the
\* record's target surface (slide space for erase records), for samples
\* inside the normalized space, negative samples and samples far beyond it.
C11_StoredCoordsInSurface ==
    \A i \in 1..Len(current_annotations) :
        \A pt \in StoredPoints(current_annotations[i]) :
            InSurface(pt, current_annotations[i].target)

\* a release that finalized a webcam shape dragged to a sample outside the
\* normalized space: the final record ends on the edge of the surface
C11_Witness ==
    /\ last_op.op = "reset_points"
    /\ Len(current_annotations) = 1
    /\ IsFinalRec(current_annotations[1])
    /\ current_annotations[1].target = "webcam"
    /\ current_annotations[1].shape_start = WebcamPoint(2, 2)
    /\ current_annotations[1].shape_end = << 0, WEBCAM_HEIGHT - 1 >>

\* ------------------------------------------------------------------------
\* C12: the mapping rounds to the nearest integer before clamping
\* ------------------------------------------------------------------------
\* round(n / d) for d > 0: the nearest integer, the even one on a tie
RoundDiv(n, d) ==
    LET q == n \div d
        r == n - q * d
    IN IF 2 * r < d THEN q
       ELSE IF 2 * r > d THEN q + 1
       ELSE IF q % 2 = 0 THEN q ELSE q + 1

\* clamp(round(v_norm * size / norm), 0, size - 1)
RoundClamp(v_norm, size, norm) ==
    Min(Max(RoundDiv(v_norm * size, norm), 0), size - 1)

\* C12. The point a draw or draw_on_webcam sample stores is
\* clamp(round(x_norm * target_width / norm_width), 0, target_width - 1) and
\* the same for y with the heights: the scaled value is rounded to the
\* nearest integer before it is clamped.
C12_RoundThenClamp ==
    last_op.op \in {"draw", "draw_on_webcam"} =>
        LET w == IF last_op.op = "draw" THEN SLIDE_WIDTH ELSE WEBCAM_WIDTH
            h == IF last_op.op = "draw" THEN SLIDE_HEIGHT ELSE WEBCAM_HEIGHT
        IN current_annotations[Len(current_annotations)].coords =
               << RoundClamp(last_op.p[1], w, NORM_WIDTH),
                  RoundClamp(last_op.p[2], h, NORM_HEIGHT) >>

\* ------------------------------------------------------------------------
\* C20: a shape sample paints previews only
\* ------------------------------------------------------------------------
\* C20. A circle or square sample never changes a main buffer and appends
\* exactly one record.  From Idle it sets the target's anchor to the sample
\* point, the record carries shape_start only and nothing is painted.  From
\* Anchored it leaves the anchor, replaces the content of that target's
\* preview buffer by the shape (anchor, sample) and the record carries
\* shape_start = anchor and shape_end = sample.  The other target's anchor
\* and preview are left alone.
C20_StepOK ==
    (last_op'.op \in {"draw", "draw_on_webcam"} /\ last_op'.mode \in Shapes) =>
        LET on_slide == last_op'.op = "draw"
            pt == IF on_slide THEN SlidePoint(last_op'.p[1], last_op'.p[2])
                  ELSE WebcamPoint(last_op'.p[1], last_op'.p[2])
            anchor == IF on_slide THEN slide_shape_start ELSE webcam_shape_start
            anchor_after == IF on_slide THEN slide_shape_start' ELSE webcam_shape_start'
            preview == IF on_slide THEN preview_canvas ELSE webcam_preview_canvas
            preview_after == IF on_slide THEN preview_canvas' ELSE webcam_preview_canvas'
            n == Len(current_annotations)
            rec == current_annotations'[n + 1]
        IN /\ canvas' = canvas
           /\ webcam_canvas' = webcam_canvas
           /\ Len(current_annotations') = n + 1
           /\ SubSeq(current_annotations', 1, n) = current_annotations
           /\ rec.type = last_op'.mode
           /\ rec.target = (IF on_slide THEN "slide" ELSE "webcam")
           /\ IF on_slide
              THEN /\ webcam_shape_start' = webcam_shape_start
                   /\ webcam_preview_canvas' = webcam_preview_canvas
              ELSE /\ slide_shape_start' = slide_shape_start
                   /\ preview_canvas' = preview_canvas
           /\ IF anchor = None
              THEN /\ anchor_after = pt
                   /\ rec.shape_start = pt /\ rec.shape_end = None
                   /\ preview_after = preview
              ELSE /\ anchor_after = anchor
                   /\ rec.shape_start = anchor /\ rec.shape_end = pt
                   /\ ShapePainted(preview_after, Blank, last_op'.mode, anchor, pt)

C20_ShapeSamplePaintsPreviewOnly == [][C20_StepOK]_vars

\* a square anchored on the slide and dragged once: the outline is on the
\* preview buffer, the main buffer is blank, the log holds the anchor record
\* and the drag record
C20_Witness ==
    /\ last_op.op = "draw" /\ last_op.mode = "square"
    /\ Len(current_annotations) = 2
    /\ IsAnchorRec(current_annotations[1])
    /\ IsPreviewRec(current_annotations[2])
    /\ current_annotations[2].shape_start = slide_shape_start
    /\ Len(preview_canvas) = 1 /\ preview_canvas[1].op = "rect"
    /\ canvas = Blank

\* ------------------------------------------------------------------------
\* C13: the replay of an erase record
\* ------------------------------------------------------------------------
\* the replay's input ends with an erase record that has a centre and a radius
EndsWithErase(R) ==
    /\ Len(R) >= 1
    /\ R[Len(R)].type = "erase"
    /\ Len(R[Len(R)].coords) = 2
    /\ Len(R[Len(R)].brush_size) = 1 /\ R[Len(R)].brush_size[1] >= 1

\* pixels looked at around a disc of radius r at c: the centre, the last
\* pixel inside and the first pixel outside on the row of the centre
DiscProbes(c, r) == { c, << c[1] + r, c[2] >>, << c[1] + r + 1, c[2] >> }

\* C13. When the replayed sequence ends with an erase record of slide-space
\* centre (x, y) and radius r, whatever its target field, the slide buffer is
\* the one before that record with the disc of radius r at (x, y) set to the
\* background, and the webcam buffer is the one before that record with the
\* disc of the same radius r at (floor(x * webcam_width / slide_width),
\* floor(y * webcam_height / slide_height)) set to the background.
C13_EraseReplay ==
    (last_op.op = "load_annotations" /\ EndsWithErase(last_op.annotations)) =>
        LET R == last_op.annotations
            e == R[Len(R)]
            r == e.brush_size[1]
            c == e.coords
            wc == << (c[1] * WEBCAM_WIDTH) \div SLIDE_WIDTH,
                     (c[2] * WEBCAM_HEIGHT) \div SLIDE_HEIGHT >>
            before == load_annotations(NewCanvas, SubSeq(R, 1, Len(R) - 1))
        IN /\ \A p \in Probes \cup DiscProbes(c, r) :
                 PixelAt(canvas, p) =
                     IF Dist2(p, c) <= r * r THEN Black ELSE PixelAt(before.canvas, p)
           /\ \A p \in Probes \cup DiscProbes(c, r) \cup DiscProbes(wc, r) :
                 PixelAt(webcam_canvas, p) =
                     IF Dist2(p, wc) <= r * r THEN Black
                     ELSE PixelAt(before.webcam_canvas, p)

\* the replay of a pen segment ending at (720, 360) on the slide, a circle
\* through (480, 240) on the webcam surface and an erase record at (720, 360):
\* both pixels were painted and are background after the erase
C13_Witness ==
    /\ last_op.op = "load_annotations"
    /\ Len(last_op.annotations) = 3
    /\ EndsWithErase(last_op.annotations)
    /\ last_op.annotations[3].coords = PtB
    /\ LET before == load_annotations(NewCanvas, SubSeq(last_op.annotations, 1, 2))
       IN /\ PixelAt(before.canvas, PtB) # Black
          /\ PixelAt(before.webcam_canvas, erase_center_wc(PtB)) # Black
    /\ PixelAt(canvas, PtB) = Black
    /\ PixelAt(webcam_canvas, erase_center_wc(PtB)) = Black
    /\ erase_center_wc(PtC) = << 640, 360 >>

\* ------------------------------------------------------------------------
\* C14: malformed records are skipped
\* ------------------------------------------------------------------------
\* a stored point is a list of two numbers
IsPoint(p) == Len(p) = 2

\* an item that is no dict, has an unknown type, or lacks or mistypes a field
\* its type requires
Malformed(a) ==
    \/ ~IsDict(a)
    \/ a.type \notin {"pen", "circle", "square", "erase", "clear_canvas"}
    \/ a.type = "pen" /\ (~IsPoint(a.coords) \/ (a.prev_coords # None /\ ~IsPoint(a.prev_coords)))
    \/ a.type \in Shapes /\ (~IsPoint(a.shape_start) \/ ~IsPoint(a.shape_end))
    \/ a.type = "erase" /\ ~IsPoint(a.coords)
    \/ Len(a.brush_size) > 1

WithoutMalformed(R) == SelectSeq(R, LAMBDA a : ~Malformed(a))

\* C14. A replayed item that is no dict, has an unknown type, or lacks or
\* mistypes a required field changes neither buffer and does not stop the
\* replay: the buffers after load_annotations(R) are those after the replay
\* of R with its malformed items taken out.
C14_MalformedSkipped ==
    last_op.op = "load_annotations" =>
        LET clean == load_annotations(NewCanvas, WithoutMalformed(last_op.annotations))
        IN /\ \A p \in Probes : PixelAt(canvas, p) = PixelAt(clean.canvas, p)
           /\ \A p \in Probes \cup {erase_center_wc(PtB)} :
                 PixelAt(webcam_canvas, p) = PixelAt(clean.webcam_canvas, p)

\* ------------------------------------------------------------------------
\* C15: a mode change releases the pending shape by finalizing it
\* ------------------------------------------------------------------------
\* the final record of the shape (anchor, end) of the given kind on the slide
IsFinalOf(a, kind, anchor, end) ==
    /\ IsFinalRec(a) /\ a.type = kind /\ a.target = "slide"
    /\ a.shape_start = anchor /\ a.shape_end = end

\* C15. When a frame changes the gesture mode, or is handled in presentation
\* mode, while a shape is anchored on the slide and its anchor record is
\* followed by one or more drag records, the last of them away from the
\* anchor, the release of that frame finalizes the shape: the log then holds
\* exactly one final record with the anchor and the last drag point, and the
\* outline is on the slide's main buffer.
C15_StepOK ==
    (/\ last_op'.op = "handle_gestures"
     /\ current_mode' # current_mode \/ current_mode' = PRESENTATION_MODE
     /\ drawing_mode \in Shapes
     /\ slide_shape_start # None
     /\ webcam_shape_start = None
     /\ \E n \in 1..Len(current_annotations) :
           EndsWithDrag(current_annotations, slide_shape_start, drawing_mode,
                        "slide", n)
     /\ current_annotations[Len(current_annotations)].shape_end # slide_shape_start)
    => LET last_drag == current_annotations[Len(current_annotations)].shape_end
           wanted == IF drawing_mode = "circle" THEN "circle" ELSE "rect"
       IN /\ Cardinality({ j \in 1..Len(current_annotations') :
                             IsFinalOf(current_annotations'[j], drawing_mode,
                                       slide_shape_start, last_drag) }) = 1
          /\ \E i \in 1..Len(canvas') : canvas'[i].op = wanted

AllFingers == [1..5 -> {0, 1}]

\* detect_mode(fingers); `waited` tells whether the call came outside the
\* cooldown window
DetectMode(fingers) ==
    /\ SetSt(detect_mode(St, fingers))
    /\ last_op' = [op |-> "detect_mode", fingers |-> fingers,
                   waited |-> (now - last_gesture_time >= GESTURE_COOLDOWN)]
    /\ UNCHANGED << now, has_set_opacity, budgets >>

GestureInit == InitCommon /\ has_set_opacity = FALSE

GestureNext ==
    \/ \E fingers \in AllFingers : DetectMode(fingers)
    \/ Tick

GestureSpec == GestureInit /\ [][GestureNext]_vars

\* the patterns of the usage guide (gui.py, show_usage_guide)
GuidePresentation == <<1, 1, 0, 0, 0>>      \* thumb + index
GuideDrawing == <<0, 1, 1, 0, 0>>           \* index + middle
GuideErasing == <<0, 1, 1, 1, 0>>           \* index + middle + ring

\* ------------------------------------------------------------------------
\* C16: detect_mode follows the usage guide
\* ------------------------------------------------------------------------
\* C16. After a detect_mode call made outside the cooldown window, the mode
\* is the one the usage guide gives for the pattern shown: Presentation for
\* thumb + index, Drawing for index + middle, Erasing for index + middle +
\* ring.
C16_ModesOfUsageGuide ==
    (last_op.op = "detect_mode" /\ last_op.waited) =>
        /\ last_op.fingers = GuidePresentation => current_mode = PRESENTATION_MODE
        /\ last_op.fingers = GuideDrawing => current_mode = DRAWING_MODE
        /\ last_op.fingers = GuideErasing => current_mode = ERASING_MODE

\* ------------------------------------------------------------------------
\* C17: what a flush leaves in the log
\* ------------------------------------------------------------------------
\* the records of `log` whose save_annotation call (calls[i] is the call for
\* log[i]) ended with result `ok`, in their order
SavedWith(log, calls, ok) ==
    LET F[i \in 0..Len(log)] ==
            IF i = 0 THEN <<>>
            ELSE IF calls[i].ok = ok THEN Append(F[i - 1], log[i]) ELSE F[i - 1]
    IN F[Len(log)]

\* C17. A save_current_annotations step taken with a logged-in user and a
\* valid current slide calls save_annotation once for every record of the
\* log, in order; afterwards the log holds exactly the records whose call
\* failed, in their original order, and the records whose call succeeded
\* have been appended to the slide's rows of the store, once each and in
\* order, the earlier rows being untouched.
C17_StepOK ==
    (/\ last_op'.op = "script_flush"
     /\ current_user_id # None
     /\ slides # <<>> /\ 0 <= current_slide_index /\ current_slide_index < Len(slides))
    => LET log == current_annotations
           calls == last_op'.saves
           kept == SavedWith(log, calls, FALSE)
           stored == SavedWith(log, calls, TRUE)
           n == Len(annotations_table)
       IN /\ Len(calls) = Len(log)
          /\ \A i \in 1..Len(log) : calls[i].data = log[i]
          /\ current_annotations' = kept
          /\ Len(annotations_table') = n + Len(stored)
          /\ SubSeq(annotations_table', 1, n) = annotations_table
          /\ \A k \in 1..Len(stored) :
                /\ annotations_table'[n + k].data = stored[k]
                /\ annotations_table'[n + k].slide_id = slides[current_slide_index + 1]

KeptInPlace(table, slide_id) ==
    LET rows == RowsOf(table, slide_id)
    IN \A R \in db_load_annotations(table, slide_id) :
          \A i, j \in 1..Len(rows) :
              (i < j /\ table[rows[j]].data.type = "clear_canvas")
                  => R[i] = table[rows[i]].data

\* C18. No step of the application, clear_canvas and the replay of
\* load_annotations included, deletes or changes a row of the annotations
\* table; and once a clear_canvas marker has been persisted for a slide,
\* every record persisted for the slide before the marker is still returned,
\* at the same position, by a load of that slide.
C18_StepOK ==
    /\ Len(annotations_table') >= Len(annotations_table)
    /\ SubSeq(annotations_table', 1, Len(annotations_table)) = annotations_table
    /\ \A slide_id \in 1..Len(SetSlides) : KeptInPlace(annotations_table', slide_id)

C18_StoreKeptAcrossClear == [][C18_StepOK]_vars

\* ------------------------------------------------------------------------
\* C19: a drawing frame completes
\* ------------------------------------------------------------------------
\* how many records of a log were created for a target
CountTarget(log, target) ==
    Cardinality({ i \in 1..Len(log) : log[i].target = target })

\* C19. A frame handled in drawing mode does not end in an error: the
\* handler gets past its brush-property setup, and a frame that drew (the
\* index finger up, with its tip among the landmarks) has applied exactly one
\* sample to each canvas that draw_location selects: one record more for the
\* slide when it is 'slide' or 'both', one more for the webcam when it is
\* 'webcam' or 'both'.
C19_StepOK ==
    (last_op'.op = "handle_gestures" /\ current_mode' = DRAWING_MODE) =>
        /\ ~frame_error'
        /\ last_draw_action_time' = now =>
              /\ CountTarget(current_annotations', "slide")
                    = CountTarget(current_annotations, "slide")
                      + (IF draw_location \in {"slide", "both"} THEN 1 ELSE 0)
              /\ CountTarget(current_annotations', "webcam")
                    = CountTarget(current_annotations, "webcam")
                      + (IF draw_location \in {"webcam", "both"} THEN 1 ELSE 0)

C19_DrawingFrameCompletes == [][C19_StepOK]_vars

\* ------------------------------------------------------------------------
\* TrackerSpec: the engine's samples, releases and clears on both targets,
\* with a record of whether a pen stroke is under way on each target
\* ------------------------------------------------------------------------
\* whether a pen sample was applied to each target since construction or the
\* last reset_points
Stroke ==
    IF "stroke" \in DOMAIN last_op THEN last_op.stroke
    ELSE [slide |-> FALSE, webcam |-> FALSE]

TrackRoom == Len(current_annotations) < MaxSampleLog

TrackDraw(p, mode) ==
    /\ TrackRoom
    /\ SetDC(draw(DC, p[1], p[2], mode, FALSE))
    /\ last_op' = [op |-> "draw", p |-> p, mode |-> mode,
                   stroke |-> [Stroke EXCEPT !.slide = @ \/ mode = "pen"]]
    /\ UNCHANGED << db_vars, gui_vars, app_vars, budgets >>

TrackDrawOnWebcam(p, mode) ==
    /\ TrackRoom
    /\ SetDC(draw_on_webcam(DC, p[1], p[2], mode, FALSE))
    /\ last_op' = [op |-> "draw_on_webcam", p |-> p, mode |-> mode,
                   stroke |-> [Stroke EXCEPT !.webcam = @ \/ mode = "pen"]]
    /\ UNCHANGED << db_vars, gui_vars, app_vars, budgets >>

TrackResetPoints(mode) ==
    /\ SetDC(reset_points(DC, mode, FALSE))
    /\ last_op' = [op |-> "reset_points", mode |-> mode,
                   stroke |-> [slide |-> FALSE, webcam |-> FALSE]]
    /\ UNCHANGED << db_vars, gui_vars, app_vars, budgets >>

\* a clear may follow the last sample the bound allows
TrackClearRoom == Len(current_annotations) <= MaxSampleLog

TrackClearCanvas ==
    /\ TrackClearRoom
    /\ SetDC(clear_canvas(DC))
    /\ last_op' = [op |-> "clear_canvas", stroke |-> Stroke]
    /\ UNCHANGED << db_vars, gui_vars, app_vars, budgets >>

TrackerNext ==
    \/ \E p \in NormPoints, mode \in Tools : TrackDraw(p, mode)
    \/ \E p \in NormPoints, mode \in Tools : TrackDrawOnWebcam(p, mode)
    \/ \E mode \in Tools : TrackResetPoints(mode)
    \/ TrackClearCanvas

TrackerSpec == EngineInit /\ [][TrackerNext]_vars

\* ------------------------------------------------------------------------
\* C21: an Idle tracker has a blank preview
\* ------------------------------------------------------------------------
\* C21. In every reachable state a target without an anchor has an
\* all-background preview buffer, and right after any reset_points call both
\* targets have no anchor, no previous pen point and an all-background
\* preview buffer.
C21_IdleHasBlankPreview ==
    /\ slide_shape_start = None => preview_canvas = Blank
    /\ webcam_shape_start = None => webcam_preview_canvas = Blank
    /\ last_op.op = "reset_points" =>
          /\ slide_shape_start = None /\ webcam_shape_start = None
          /\ slide_prev = None /\ webcam_prev = None
          /\ preview_canvas = Blank /\ webcam_preview_canvas = Blank

\* a release of a shape that had been dragged on the webcam target: the
\* drag's preview is gone and the shape is on the main buffer
C21_Witness ==
    /\ last_op.op = "reset_points" /\ last_op.mode = "circle"
    /\ Len(current_annotations) = 1
    /\ IsFinalRec(current_annotations[1])
    /\ current_annotations[1].target = "webcam"
    /\ Len(webcam_canvas) = 1
    /\ webcam_preview_canvas = Blank /\ webcam_shape_start = None

\* ------------------------------------------------------------------------
\* C22: pen strokes
\* ------------------------------------------------------------------------
\* the position in a log of the last pen record of a target, 0 when none
LastPenIndex(log, target) ==
    LET pens == { i \in 1..Len(log) : log[i].type = "pen" /\ log[i].target = target }
    IN IF pens = {} THEN 0 ELSE CHOOSE i \in pens : \A j \in pens : j <= i

\* C22. A pen sample on a target appends one pen record for the sample
\* point.  The first pen sample on the target since construction or the last
\* reset_points gives a record without prev_coords and paints a start disc at
\* the point; every later one gives a record whose prev_coords is the coords
\* of the preceding pen record of that target and paints the line between the
\* two points.
C22_StepOK ==
    (last_op'.op \in {"draw", "draw_on_webcam"} /\ last_op'.mode = "pen") =>
        LET on_slide == last_op'.op = "draw"
            target == IF on_slide THEN "slide" ELSE "webcam"
            pt == IF on_slide THEN SlidePoint(last_op'.p[1], last_op'.p[2])
                  ELSE WebcamPoint(last_op'.p[1], last_op'.p[2])
            buf == IF on_slide THEN canvas ELSE webcam_canvas
            buf_after == IF on_slide THEN canvas' ELSE webcam_canvas'
            under_way == IF on_slide THEN Stroke.slide ELSE Stroke.webcam
            n == Len(current_annotations)
            rec == current_annotations'[n + 1]
            k == LastPenIndex(current_annotations, target)
            color == get_current_color(current_color_index, FALSE)
            x == buf_after[Len(buf_after)]
        IN /\ Len(current_annotations') = n + 1
           /\ SubSeq(current_annotations', 1, n) = current_annotations
           /\ rec.type = "pen" /\ rec.target = target /\ rec.coords = pt
           /\ Len(buf_after) = Len(buf) + 1
           /\ SubSeq(buf_after, 1, Len(buf)) = buf
           /\ PixelAt(buf_after, pt) = color
           /\ IF ~under_way
              THEN /\ rec.prev_coords = None
                   /\ x.op = "disc" /\ x.a = pt /\ x.r >= 1 /\ x.color = color
              ELSE /\ k > 0
                   /\ rec.prev_coords = current_annotations[k].coords
                   /\ x.op = "line" /\ x.a = current_annotations[k].coords
                   /\ x.b = pt /\ x.color = color
                   /\ PixelAt(buf_after,
                              << (x.a[1] + pt[1]) \div 2, (x.a[2] + pt[2]) \div 2 >>)
                          = color

C22_PenStroke == [][C22_StepOK]_vars

\* a second pen sample on the webcam target, at another point than the
\* first: a start record, then a segment record from the first point
C22_Witness ==
    /\ last_op.op = "draw_on_webcam" /\ last_op.mode = "pen"
    /\ Len(current_annotations) = 2
    /\ current_annotations[1].type = "pen"
    /\ current_annotations[1].prev_coords = None
    /\ current_annotations[2].prev_coords = current_annotations[1].coords
    /\ current_annotations[2].coords # current_annotations[1].coords
    /\ Len(webcam_canvas) = 2
    /\ webcam_canvas[1].op = "disc" /\ webcam_canvas[2].op = "line"

\* ------------------------------------------------------------------------
\* C23: a pen-mode release
\* ------------------------------------------------------------------------
\* C23. reset_points with mode 'pen' sets both previous pen points to None
\* and changes nothing else: the log, both main buffers, a pending shape
\* anchor of either target and its preview buffer are as before the call.
C23_StepOK ==
    (last_op'.op = "reset_points" /\ last_op'.mode = "pen") =>
        /\ slide_prev' = None /\ webcam_prev' = None
        /\ current_annotations' = current_annotations
        /\ canvas' = canvas /\ webcam_canvas' = webcam_canvas
        /\ slide_shape_start' = slide_shape_start
        /\ webcam_shape_start' = webcam_shape_start
        /\ preview_canvas' = preview_canvas
        /\ webcam_preview_canvas' = webcam_preview_canvas

C23_PenReleaseKeepsShape == [][C23_StepOK]_vars

\* ------------------------------------------------------------------------
\* C24: clear_canvas
\* ------------------------------------------------------------------------
\* C24. clear_canvas leaves the main and the preview buffer of both targets
\* all background and appends exactly one clear_canvas record with target
\* 'both' to the log: the records that were in the log are all kept, in their
\* order, before the marker.
C24_StepOK ==
    last_op'.op = "clear_canvas" =>
        LET n == Len(current_annotations)
        IN /\ canvas' = Blank /\ webcam_canvas' = Blank
           /\ preview_canvas' = Blank /\ webcam_preview_canvas' = Blank
           /\ \A p \in Probes : PixelAt(canvas', p) = Black
           /\ Len(current_annotations') = n + 1
           /\ SubSeq(current_annotations', 1, n) = current_annotations
           /\ current_annotations'[n + 1].type = "clear_canvas"
           /\ current_annotations'[n + 1].target = "both"

AnchorIndex(log, anchor, target) ==
    LET anchors == { i \in 1..Len(log) :
                       /\ IsAnchorRec(log[i]) /\ log[i].shape_start = anchor
                       /\ log[i].target = target }
    IN IF anchors = {} THEN 0 ELSE CHOOSE i \in anchors : \A j \in anchors : j <= i

\* the records of a finalizing release on the slide are left as they were
\* before position k
C25_KeepsBefore(k) ==
    /\ Len(current_annotations') >= k - 1
    /\ SubSeq(current_annotations', 1, k - 1) = SubSeq(current_annotations, 1, k - 1)

\* C25. On a release with a shape kind while an anchor is pending on the
\* slide, the backward scan of the log stops at the anchor-only record of
\* that anchor, and no record before that record is removed, whatever the
\* log holds and whatever tools were used since the anchor was set.
C25_StepOK ==
    (/\ last_op'.op = "reset_points"
     /\ last_op'.mode \in Shapes
     /\ slide_shape_start # None) =>
        LET k == AnchorIndex(current_annotations, slide_shape_start, "slide")
            s == scan_back(current_annotations, Len(current_annotations),
                           slide_shape_start, "slide", last_op'.mode, None, {})
        IN /\ k > 0
           /\ s.stopped_at = k
           /\ C25_KeepsBefore(k)

C25_ScanStopsAtAnchor == [][C25_StepOK]_vars

\* ------------------------------------------------------------------------
\* PaintSpec: draw_shape applied to the slide buffer, for anchors and ends
\* inside and outside the buffer
\* ------------------------------------------------------------------------
\* a point inside the buffer, a point on its first column, a point on the row
\* of that one, and a point left of the buffer and below it
ShapePoints == { <<100, 100>>, <<0, 300>>, <<400, 300>>, <<-50, 1200>> }

\* draw_shape(self.canvas, start, end, mode, color, self.brush_size)
DrawShape(start, end, mode) ==
    /\ Len(canvas) < MaxPaints
    /\ canvas' = draw_shape(canvas, SLIDE_WIDTH, SLIDE_HEIGHT, start, end, mode,
                            get_current_color(current_color_index, FALSE),
                            brush_size)
    /\ last_op' = [op |-> "draw_shape", start |-> start, end |-> end, mode |-> mode]
    /\ UNCHANGED << webcam_canvas, preview_canvas, webcam_preview_canvas,
                    slide_prev, webcam_prev, slide_shape_start, webcam_shape_start,
                    current_color_index, brush_size, current_annotations,
                    db_vars, gui_vars, app_vars, budgets >>

PaintNext == \E start \in ShapePoints, end \in ShapePoints, mode \in Shapes :
                DrawShape(start, end, mode)

PaintSpec == EngineInit /\ [][PaintNext]_vars

\* ------------------------------------------------------------------------
\* C26: degenerate shapes are skipped
\* ------------------------------------------------------------------------
\* C26. draw_shape leaves the buffer unchanged for a circle whose anchor and
\* end are less than one pixel apart and for a rectangle whose corners,
\* clipped to the buffer, have zero width or zero height.  Otherwise it paints
\* the outline of the circle with centre anchor and radius floor(distance
\* (anchor, end)), or of the rectangle with corners (min x, min y) and
\* (max x, max y) clipped to the buffer.
C26_StepOK ==
    last_op'.op = "draw_shape" =>
        LET a == last_op'.start
            e == last_op'.end
            d2 == Dist2(a, e)
            c1 == << Max(0, Min(a[1], e[1])), Max(0, Min(a[2], e[2])) >>
            c2 == << Min(SLIDE_WIDTH - 1, Max(a[1], e[1])),
                     Min(SLIDE_HEIGHT - 1, Max(a[2], e[2])) >>
            color == get_current_color(current_color_index, FALSE)
            n == Len(canvas)
            x == canvas'[n + 1]
            painted == /\ Len(canvas') = n + 1
                       /\ SubSeq(canvas', 1, n) = canvas
                       /\ x.color = color
        IN IF last_op'.mode = "circle"
           THEN IF d2 < 1 THEN canvas' = canvas
                ELSE /\ painted
                     /\ x.op = "circle" /\ x.a = a
                     /\ x.r >= 1 /\ Sq(x.r) <= d2 /\ d2 < Sq(x.r + 1)
                     /\ PixelAt(canvas', << a[1] + x.r, a[2] >>) = color
           ELSE IF c2[1] - c1[1] <= 0 \/ c2[2] - c1[2] <= 0 THEN canvas' = canvas
                ELSE /\ painted
                     /\ x.op = "rect" /\ x.a = c1 /\ x.b = c2
                     /\ PixelAt(canvas', c1) = color /\ PixelAt(canvas', c2) = color

C26_DegenerateShapesSkipped == [][C26_StepOK]_vars

\* a rectangle that lies on the first column of the buffer once clipped,
\* called on a buffer that holds a circle: nothing was added
C26_Witness ==
    /\ last_op.op = "draw_shape" /\ last_op.mode = "square"
    /\ last_op.start = << -50, 1200 >> /\ last_op.end = << 0, 300 >>
    /\ Len(canvas) = 1 /\ canvas[1].op = "circle"

\* ------------------------------------------------------------------------
\* BrushSpec: brush sizes set, used live and replayed.  A run sets the brush
\* size, draws and erases at one point, and ends with one replay.
\* ------------------------------------------------------------------------
\* what set_brush_size may be handed: a value int() rejects, zero, and a size
BrushValues == { None, <<0>>, <<3>> }

BrushPoint == << 300, 200 >>
Corner == << 0, 0 >>

\* records replayed: a pen start of brush size 60 at the corner of both
\* surfaces, erase records there with a stored radius of 7, of 0 and with
\* none, and a pen segment and a circle of brush size 0 and -2
BrushItems ==
    { Ann("pen", Corner, None, None, None, colors[1], <<60>>, "both"),
      Ann("erase", Corner, None, None, None, None, <<7>>, "both"),
      Ann("erase", Corner, None, None, None, None, None, "both"),
      Ann("erase", Corner, None, None, None, None, <<0>>, "both"),
      Ann("pen", PtB, PtA, None, None, colors[2], <<0>>, "slide"),
      Ann("circle", None, None, PtA, PtB, colors[3], <<-2>>, "webcam") }

BrushInputs == UNION { [1..n -> BrushItems] : n \in 0..MaxBrushReplay }

Live == last_op.op # "load_annotations"

SetBrushSizeTo(size) ==
    /\ Live
    /\ tweaks < MaxTweaks
    /\ tweaks' = tweaks + 1
    /\ SetDC(set_brush_size(DC, size))
    /\ last_op' = [op |-> "set_brush_size", size |-> size]
    /\ UNCHANGED << db_vars, gui_vars, app_vars, frames, events >>

\* load_annotations(annotations) on the canvas as it is
Reload(annotations) ==
    /\ Live
    /\ SetDC(load_annotations(DC, annotations))
    /\ last_op' = [op |-> "load_annotations", annotations |-> annotations]
    /\ UNCHANGED << db_vars, gui_vars, app_vars, budgets >>

BrushNext ==
    \/ \E size \in BrushValues : SetBrushSizeTo(size)
    \/ Live /\ SampleRoom /\ Draw(BrushPoint, "pen", FALSE)
    \/ Live /\ SampleRoom /\ Erase(BrushPoint)
    \/ \E annotations \in BrushInputs : Reload(annotations)

BrushSpec == EngineInit /\ [][BrushNext]_vars

\* ------------------------------------------------------------------------
\* C27: the radius of an erase, live and replayed
\* ------------------------------------------------------------------------
\* buf2 is buf with the disc of radius r at c set to the background
DiscErased(buf2, buf, c, r) ==
    /\ \A q \in DiscProbes(c, r) :
          PixelAt(buf2, q) = IF Dist2(q, c) <= r * r THEN Black ELSE PixelAt(buf, q)
    /\ buf # Blank =>
          /\ Len(buf2) = Len(buf) + 1
          /\ SubSeq(buf2, 1, Len(buf)) = buf
          /\ buf2[Len(buf2)].op = "disc" /\ buf2[Len(buf2)].a = c
          /\ buf2[Len(buf2)].r = r /\ buf2[Len(buf2)].color = Black

\* C27. A live erase sets the disc of radius max(5, 2 * brush_size) at the
\* sample's point to the background on both main buffers and appends exactly
\* one erase record with target 'both', the slide-space centre and that
\* radius as its size.  The replay of an erase record uses the radius the
\* record stores (a brush size, hence >= 1), and max(5, 2 * brush size of the
\* canvas) only when the record stores none.
C27_StepOK ==
    /\ last_op'.op = "erase" =>
          LET r == Max(5, 2 * brush_size)
              ps == SlidePoint(last_op'.p[1], last_op'.p[2])
              pw == WebcamPoint(last_op'.p[1], last_op'.p[2])
              n == Len(current_annotations)
              rec == current_annotations'[n + 1]
          IN /\ Len(current_annotations') = n + 1
             /\ SubSeq(current_annotations', 1, n) = current_annotations
             /\ rec.type = "erase" /\ rec.target = "both"
             /\ rec.coords = ps /\ rec.brush_size = << r >>
             /\ DiscErased(canvas', canvas, ps, r)
             /\ DiscErased(webcam_canvas', webcam_canvas, pw, r)
    /\ (/\ last_op'.op = "load_annotations"
        /\ Len(last_op'.annotations) >= 1
        /\ LET e == last_op'.annotations[Len(last_op'.annotations)]
           IN e.type = "erase" /\ (e.brush_size = None \/ e.brush_size[1] >= 1)) =>
          LET R == last_op'.annotations
              e == R[Len(R)]
              r == IF e.brush_size = None THEN Max(5, 2 * brush_size)
                   ELSE e.brush_size[1]
              before == load_annotations(DC, SubSeq(R, 1, Len(R) - 1))
          IN /\ DiscErased(canvas', before.canvas, e.coords, r)
             /\ DiscErased(webcam_canvas', before.webcam_canvas,
                           erase_center_wc(e.coords), r)

PaintsAtLeastOne(buf) ==
    \A i \in 1..Len(buf) :
        /\ buf[i].op \in {"line", "circle", "rect"} => buf[i].size >= 1
        /\ buf[i].op \in {"disc", "circle"} => buf[i].r >= 1

\* C28. The brush size of the canvas is at least 1 in every state.
\* set_brush_size stores the converted value, or 1 when that is below 1, and
\* leaves the brush size as it is when the value cannot be converted.  Every
\* thickness and every radius the replay paints with is at least 1.
C28_StepOK ==
    /\ brush_size >= 1 /\ brush_size' >= 1
    /\ last_op'.op = "set_brush_size" =>
          IF last_op'.size = None THEN brush_size' = brush_size
          ELSE IF last_op'.size[1] < 1 THEN brush_size' = 1
          ELSE brush_size' = last_op'.size[1]
    /\ last_op'.op = "load_annotations" =>
          PaintsAtLeastOne(canvas') /\ PaintsAtLeastOne(webcam_canvas')

C28_BrushSizeAtLeastOne == [][C28_StepOK]_vars

\* set_brush_size(0) made the brush size 1, and the replay of a pen start of
\* size 60 and a pen segment of stored size 0 painted a line of thickness 1
C28_Witness ==
    /\ last_op.op = "load_annotations"
    /\ brush_size = 1
    /\ Len(last_op.annotations) = 2
    /\ last_op.annotations[2].type = "pen"
    /\ last_op.annotations[2].brush_size = << 0 >>
    /\ Len(canvas) = 2
    /\ canvas[2].op = "line" /\ canvas[2].size = 1

\* ------------------------------------------------------------------------
\* CooldownSpec: the GestureController shown finger patterns at instants a
\* tenth of a second or more apart, with a record of when the mode last
\* changed and when a mode gesture was last recognized
\* ------------------------------------------------------------------------
\* how far the clock may advance between two calls, in tenths of a second:
\* 0.7 s is inside the gesture cooldown, 0.7 s + 0.1 s is its end
Durations == { 1, 7 }

ShownFingers == Fingers \cup { ThumbOnly, GuidePresentation }

ModeGestures == { DrawGesture, EraseGesture, PresentGesture }

\* the instant of the last mode change, the instant a mode gesture was last
\* recognized (None when there was none yet), and the number of mode changes
GestureHistory ==
    IF "changed_at" \in DOMAIN last_op
    THEN [changed_at |-> last_op.changed_at,
          recognized_at |-> last_op.recognized_at,
          changes |-> last_op.changes]
    ELSE [changed_at |-> None, recognized_at |-> None, changes |-> 0]

InGestureCooldown ==
    /\ GestureHistory.recognized_at # None
    /\ now - GestureHistory.recognized_at[1] < GESTURE_COOLDOWN

TimedDetectMode(fingers) ==
    LET r == detect_mode(St, fingers)
        changed == r.current_mode # current_mode
        recognized == fingers \in ModeGestures /\ ~InGestureCooldown
    IN /\ SetSt(r)
       /\ last_op' = [op |-> "detect_mode", fingers |-> fingers,
                      changed_at |-> IF changed THEN <<now>>
                                     ELSE GestureHistory.changed_at,
                      recognized_at |-> IF recognized THEN <<now>>
                                        ELSE GestureHistory.recognized_at,
                      changes |-> IF changed THEN Min(GestureHistory.changes + 1, 2)
                                  ELSE GestureHistory.changes]
       /\ UNCHANGED << now, has_set_opacity, budgets >>

\* time passes between two frames
Elapse(d) ==
    /\ now + d <= MaxTime
    /\ now' = now + d
    /\ last_op' = [op |-> "elapse", fingers |-> NoFingers,
                   changed_at |-> GestureHistory.changed_at,
                   recognized_at |-> GestureHistory.recognized_at,
                   changes |-> GestureHistory.changes]
    /\ UNCHANGED << canvas_vars, annotations_table, failures, gui_vars, app_vars,
                    budgets >>

CooldownNext ==
    \/ \E fingers \in ShownFingers : TimedDetectMode(fingers)
    \/ \E d \in Durations : Elapse(d)

CooldownSpec == GestureInit /\ [][CooldownNext]_vars

\* ------------------------------------------------------------------------
\* C29: the gesture cooldown
\* ------------------------------------------------------------------------
\* C29. Two changes of the mode are at least gesture_cooldown (0.8 s) apart.
\* A detect_mode call made less than the cooldown after the last recognized
\* mode gesture leaves the mode as it is, whatever the pattern shown; a
\* pattern that is none of the three mode gestures never changes the mode
\* and never restarts the cooldown.
C29_StepOK ==
    last_op'.op = "detect_mode" =>
        /\ InGestureCooldown => current_mode' = current_mode
        /\ last_op'.fingers \notin ModeGestures =>
              /\ current_mode' = current_mode
              /\ last_gesture_time' = last_gesture_time
              /\ last_op'.recognized_at = GestureHistory.recognized_at
        /\ (current_mode' # current_mode /\ GestureHistory.changed_at # None) =>
              now - GestureHistory.changed_at[1] >= GESTURE_COOLDOWN

C29_GestureCooldown == [][C29_StepOK]_vars

\* a second change of the mode, exactly 0.8 s after the first
C29_Witness ==
    /\ last_op.op = "detect_mode"
    /\ last_op.changes = 2
    /\ last_op.changed_at = << now >>
    /\ now = StartTime + GESTURE_COOLDOWN
    /\ last_gesture_time = now

\* ---------------------------------------------------------------------------
\* Major actions under the action cooldown: frames read 0.1 s or 0.7 s apart
\* by a logged-in presenter with a slide set loaded.
\* ---------------------------------------------------------------------------

ActionFingers ==
    { PresentGesture, EraseGesture, IndexOnly, ThumbOnly, AllUp,
      ScreenshotGesture, FullscreenGesture }
ActionTip == <<160, 120>>

\* when the last major action was performed, as the frames showed it
ActedAt == IF "acted_at" \in DOMAIN last_op THEN last_op.acted_at ELSE None

\* when a slide navigation last failed although the presenter had rested
FailedAt == IF "failed_at" \in DOMAIN last_op THEN last_op.failed_at ELSE None

Rested == ActedAt = None \/ now - ActedAt[1] > ACTION_COOLDOWN

\* the slide navigation can be carried out in the state the frame starts in
NavigationPossible(direction) ==
    \E r \in navigate_slide(St, direction) : r.ret

NavigationFails(fingers) ==
    \/ fingers = IndexOnly /\ ~NavigationPossible(1)
    \/ fingers = ThumbOnly /\ ~NavigationPossible(-1)

\* one frame of the main loop: handle_gestures(fingers, lm_list, img)
GestureFrame(fingers) ==
    /\ Running
    /\ current_user_id # None
    /\ slides # <<>>
    /\ frames < MaxFrames
    /\ frames' = frames + 1
    /\ \E r \in handle_gestures(St, fingers, ActionTip) :
          /\ InBounds(r)
          /\ SetSt(r)
          /\ last_op' = [op |-> "handle_gestures", saves |-> r.saves,
                         fingers |-> fingers, acts |-> r.acts,
                         acted_at |-> IF r.acts # <<>> THEN <<now>>
                                      ELSE ActedAt,
                         failed_at |->
                             IF /\ r.current_mode = PRESENTATION_MODE
                                /\ NavigationFails(fingers)
                                /\ Rested
                             THEN <<now>> ELSE FailedAt]
    /\ UNCHANGED << now, has_set_opacity, tweaks, events >>

\* time.time() read d tenths of a second later
Wait(d) ==
    /\ now + d <= MaxTime
    /\ now' = now + d
    /\ last_op' = [op |-> "wait", acted_at |-> ActedAt,
                   failed_at |-> FailedAt]
    /\ UNCHANGED << canvas_vars, annotations_table, failures, gui_vars, app_vars,
                    budgets >>

ActionNext ==
    \/ HandleLogin
    \/ slides = <<>> /\ LoadSlides
    \/ \E fingers \in ActionFingers : GestureFrame(fingers)
    \/ \E d \in Durations : Wait(d)

ActionSpec == GestureInit /\ [][ActionNext]_vars

\* C30: any two major actions performed by handle_gestures (slide navigation
\* that succeeds, screenshot, fullscreen toggle, clear canvas) are more than
\* action_cooldown (0.7 s) apart, a frame performs at most one, and a slide
\* navigation that fails leaves last_action_time alone, so that the action
\* gesture of a frame is performed whenever more than 0.7 s have passed since
\* the last action that was performed.
C30_StepOK ==
    (last_op'.op = "handle_gestures" /\ "acts" \in DOMAIN last_op') =>
        LET fingers == last_op'.fingers
            acts == last_op'.acts
            rested == Rested
            failed == /\ current_mode' = PRESENTATION_MODE
                      /\ NavigationFails(fingers)
            asked == \/ /\ current_mode' = PRESENTATION_MODE
                        /\ \/ fingers = IndexOnly /\ NavigationPossible(1)
                           \/ fingers = ThumbOnly /\ NavigationPossible(-1)
                           \/ fingers \in { ScreenshotGesture,
                                            FullscreenGesture }
                     \/ current_mode' = ERASING_MODE /\ fingers = AllUp
        IN /\ Len(acts) <= 1
           /\ acts # <<>> => rested /\ asked
           /\ asked /\ rested => acts # <<>>
           /\ acts # <<>> => last_action_time' = now
           /\ acts = <<>> => last_action_time' = last_action_time
           /\ failed => acts = <<>> /\ last_action_time' = last_action_time
C30_ActionCooldown == [][C30_StepOK]_vars

\* the third frame performs a slide navigation 0.9 s after the first action,
\* 0.1 s after a navigation that failed at the first slide
C30_Witness ==
    /\ last_op.op = "handle_gestures"
    /\ "acts" \in DOMAIN last_op
    /\ last_op.acts = <<"navigate_slide">>
    /\ last_op.fingers = IndexOnly
    /\ frames = 3
    /\ now = StartTime + ACTION_COOLDOWN + 2
    /\ last_op.failed_at = <<now - 1>>
    /\ last_action_time = now

\* ------------------------------------------------------------------------
\* C31: a record is persisted at most once
\* ------------------------------------------------------------------------
\* the number of entries of a sequence of records equal to v
CountOf(seq, v) == Cardinality({ i \in 1..Len(seq) : seq[i] = v })

\* the number of calls of the last step given v that had the result ok
CountSaves(v, ok) ==
    Cardinality({ i \in 1..Len(Saves) : Saves[i].data = v /\ Saves[i].ok = ok })

C32_StepOK ==
    (/\ last_op'.op = "handle_gestures"
     /\ \E i \in 1..Len(last_op'.saves) :
           last_op'.saves[i].ok /\ last_op'.saves[i].data.type = "erase")
    => current_annotations = <<>>
C32_PersistedInActionOrder == [][C32_StepOK]_vars

\* ------------------------------------------------------------------------
\* SessionSpec: engine calls from a fresh canvas, with a record of the shape
\* kinds sampled since the last release and of whether every release so far
\* used the kind of the shape samples before it.  A run is followed up to the
\* first release that used another kind.
\* ------------------------------------------------------------------------
SessionKinds == IF "kinds" \in DOMAIN last_op THEN last_op.kinds ELSE {}
SessionMatched == IF "matched" \in DOMAIN last_op THEN last_op.matched ELSE TRUE

KindsWith(mode) == IF mode \in Shapes THEN SessionKinds \cup {mode} ELSE SessionKinds

SessionDraw(p, mode) ==
    /\ SessionMatched
    /\ SampleRoom
    /\ SetDC(draw(DC, p[1], p[2], mode, FALSE))
    /\ last_op' = [op |-> "draw", p |-> p, mode |-> mode,
                   kinds |-> KindsWith(mode), matched |-> TRUE]
    /\ UNCHANGED << db_vars, gui_vars, app_vars, budgets >>

SessionDrawOnWebcam(p, mode) ==
    /\ SessionMatched
    /\ SampleRoom
    /\ SetDC(draw_on_webcam(DC, p[1], p[2], mode, FALSE))
    /\ last_op' = [op |-> "draw_on_webcam", p |-> p, mode |-> mode,
                   kinds |-> KindsWith(mode), matched |-> TRUE]
    /\ UNCHANGED << db_vars, gui_vars, app_vars, budgets >>

SessionErase(p) ==
    /\ SessionMatched
    /\ SampleRoom
    /\ SetDC(erase(DC, p[1], p[2]))
    /\ last_op' = [op |-> "erase", p |-> p, kinds |-> SessionKinds,
                   matched |-> TRUE]
    /\ UNCHANGED << db_vars, gui_vars, app_vars, budgets >>

SessionClearCanvas ==
    /\ SessionMatched
    /\ TrackClearRoom
    /\ SetDC(clear_canvas(DC))
    /\ last_op' = [op |-> "clear_canvas", kinds |-> SessionKinds,
                   matched |-> TRUE]
    /\ UNCHANGED << db_vars, gui_vars, app_vars, budgets >>

SessionResetPoints(mode) ==
    /\ SessionMatched
    /\ SetDC(reset_points(DC, mode, FALSE))
    /\ last_op' = [op |-> "reset_points", mode |-> mode, kinds |-> {},
                   matched |-> SessionKinds \subseteq {mode}]
    /\ UNCHANGED << db_vars, gui_vars, app_vars, budgets >>

SessionNext ==
    \/ \E p \in NormPoints, mode \in Tools : SessionDraw(p, mode)
    \/ \E p \in NormPoints, mode \in Tools : SessionDrawOnWebcam(p, mode)
    \/ \E p \in NormPoints : SessionErase(p)
    \/ SessionClearCanvas
    \/ \E mode \in Tools : SessionResetPoints(mode)

SessionSpec == EngineInit /\ [][SessionNext]_vars

\* ------------------------------------------------------------------------
\* C33: replay of the in-session log equals the live slide buffer
\* ------------------------------------------------------------------------
\* C33. Right after a reset_points, in a run from a fresh canvas whose
\* releases all used the kind of the shape samples since the release before,
\* replaying the in-session log on a fresh canvas gives the pixels of the live
\* slide main buffer.
C33_LogReplayEqualsLive ==
    (last_op.op = "reset_points" /\ SessionMatched)
    => SamePixels(load_annotations(NewCanvas, current_annotations).canvas, canvas)

\* a released circle from the first sample point through the second, painted
\* on the live slide buffer and recorded after another record of the log
C33_Witness ==
    /\ last_op.op = "reset_points"
    /\ last_op.mode = "circle"
    /\ SessionMatched
    /\ Len(current_annotations) = 2
    /\ IsFinalOf(current_annotations[2], "circle", PtA, PtB)
    /\ current_annotations[2].target = "slide"
    /\ PixelAt(canvas, PtB) = colors[1]

\* ------------------------------------------------------------------------
\* C34: the replayed and the live erase have the same webcam centre
\* ------------------------------------------------------------------------
\* C34. After erase(x_norm, y_norm), the centre at which the replay of the
\* appended record erases on the webcam buffer (the recorded slide-space
\* centre rescaled by the ratio of the surface dimensions) is the centre at
\* which the call erased on the webcam buffer (the normalized point mapped to
\* webcam space).
C34_EraseCentreAgrees ==
    (last_op.op = "erase" /\ current_annotations # <<>>) =>
        LET e == current_annotations[Len(current_annotations)]
        IN erase_center_wc(e.coords) = WebcamPoint(last_op.p[1], last_op.p[2])

\* ------------------------------------------------------------------------
\* C35: the drawing state after a replay
\* ------------------------------------------------------------------------
\* C35. After load_annotations both shape trackers are Idle and both pen
\* previous points are None, so that the next sample starts a new stroke or
\* sets a new anchor.
C35_FreshAfterLoad ==
    last_op.op = "load_annotations" =>
        /\ slide_shape_start = None /\ webcam_shape_start = None
        /\ slide_prev = None /\ webcam_prev = None

\* ------------------------------------------------------------------------
\* C36: the replay depends on the records only
\* ------------------------------------------------------------------------
\* C36. The buffers load_annotations produces on a canvas, whatever its
\* buffers, brush size, colour index, anchors and log were, have the pixels of
\* the buffers it produces from the same records on a newly constructed
\* canvas.
C36_ReplayOfRecordsOnly ==
    last_op.op = "load_annotations" =>
        LET fresh == load_annotations(NewCanvas, last_op.annotations)
        IN \A p \in Probes \cup DiscProbes(Corner, EraseRadius(brush_size)) :
              /\ PixelAt(canvas, p) = PixelAt(fresh.canvas, p)
              /\ PixelAt(webcam_canvas, p) = PixelAt(fresh.webcam_canvas, p)

\* ------------------------------------------------------------------------
\* C37: what reset_points removes from the log
\* ------------------------------------------------------------------------
\* the positions of the log holding an anchor-only or preview record of a
\* shape pending on its target
PendingIndices ==
    { i \in 1..Len(current_annotations) :
        LET a == current_annotations[i]
        IN /\ IsAnchorRec(a) \/ IsPreviewRec(a)
           /\ \/ a.target = "slide" /\ slide_shape_start # None
                   /\ a.shape_start = slide_shape_start
              \/ a.target = "webcam" /\ webcam_shape_start # None
                   /\ a.shape_start = webcam_shape_start }

\* C37. reset_points removes from the in-session log only anchor-only and
\* preview records of the shapes being released: the log after it is the log
\* before it without some of these records, every other record (final shape,
\* pen, erase, clear_canvas) in its place, followed by the final records
\* appended (at most one for each target).
C37_StepOK ==
    last_op'.op = "reset_points" =>
        \E removed \in SUBSET PendingIndices, k \in 0..2 :
            /\ k <= Len(current_annotations')
            /\ SubSeq(current_annotations', 1, Len(current_annotations') - k)
                   = RemoveIndices(current_annotations, removed)
            /\ \A j \in (Len(current_annotations') - k + 1)..Len(current_annotations') :
                   IsFinalRec(current_annotations'[j])
C37_RemovesPreviewsOnly == [][C37_StepOK]_vars

\* ------------------------------------------------------------------------
\* C38: the two targets are independent under drawing
\* ------------------------------------------------------------------------
\* C38. A draw call leaves the webcam main buffer, the webcam preview buffer,
\* the webcam anchor and the webcam previous point as they were and appends
\* one record, of target 'slide', to the log; a draw_on_webcam call leaves the
\* slide main buffer, the slide preview buffer, the slide anchor and the slide
\* previous point as they were and appends one record, of target 'webcam'.
C38_StepOK ==
    LET n == Len(current_annotations)
        appended(target) ==
            /\ Len(current_annotations') = n + 1
            /\ SubSeq(current_annotations', 1, n) = current_annotations
            /\ current_annotations'[n + 1].target = target
    IN /\ last_op'.op = "draw" =>
           /\ UNCHANGED << webcam_canvas, webcam_preview_canvas,
                           webcam_shape_start, webcam_prev >>
           /\ appended("slide")
       /\ last_op'.op = "draw_on_webcam" =>
           /\ UNCHANGED << canvas, preview_canvas, slide_shape_start,
                           slide_prev >>
           /\ appended("webcam")
C38_TargetsIndependent == [][C38_StepOK]_vars

\* a shape sample on the slide while a shape is anchored on the webcam target
C38_Witness ==
    /\ last_op.op = "draw"
    /\ last_op.mode = "circle"
    /\ Len(current_annotations) = 2
    /\ current_annotations[1].target = "webcam"
    /\ current_annotations[2].target = "slide"
    /\ webcam_shape_start = WebcamPoint(300, 200)
    /\ slide_shape_start = SlidePoint(100, 100)

\* ------------------------------------------------------------------------
\* SwitchSpec: slide changes whose load of the stored annotations may raise.
\* Database.load_annotations raises when connection.cursor() does: its
\* `finally: cursor.close()` then fails on the unassigned name (database.py:
\* 272-295), and display_slide catches the exception (gui.py:906-908).
\* ------------------------------------------------------------------------
\* display_slide() of a valid slide whose load raises: the warning and
\* clear_canvas()
display_slide_load_error(s) ==
    IF ~ValidIndex(s) THEN clear_and_forget(s)
    ELSE IF s.user # None THEN [s EXCEPT !.dc = clear_canvas(@)]
    ELSE s

\* navigate_slide(direction) when the load of the slide entered raises
navigate_slide_load_error(s, direction) ==
    IF s.slides = <<>> THEN { [st |-> s, ret |-> FALSE] }
    ELSE LET new_index == IF s.index = -1 /\ direction > 0 THEN 0
                          ELSE s.index + direction
         IN IF 0 <= new_index /\ new_index < Len(s.slides)
            THEN { [st |-> display_slide_load_error([f EXCEPT !.index = new_index]),
                    ret |-> TRUE] :
                   f \in IF s.index # -1 THEN save_current_annotations(s)
                         ELSE {s} }
            ELSE { [st |-> s, ret |-> FALSE] }

KeyNavigateLoadError(direction) ==
    /\ Running
    /\ events < MaxEvents
    /\ events' = events + 1
    /\ current_user_id # None
    /\ \E r \in navigate_slide_load_error(St, direction) :
          /\ InBounds(r.st)
          /\ SetSt(r.st)
          /\ last_op' = [op |-> "navigate_slide", saves |-> r.st.saves]
    /\ UNCHANGED << now, has_set_opacity, tweaks, frames >>

SwitchNext ==
    \/ HandleLogin
    \/ LoadSlides
    \/ \E fingers \in ActionFingers : GestureFrame(fingers)
    \/ \E direction \in {1, -1} : KeyNavigate(direction)
    \/ \E direction \in {1, -1} : KeyNavigateLoadError(direction)
    \/ HandleLogout

SwitchSpec == GestureInit /\ [][SwitchNext]_vars

\* ------------------------------------------------------------------------
\* C39: a record is persisted under the slide it was made on
\* ------------------------------------------------------------------------
\* the id of the slide on display, None when there is none
CurrentSlideId ==
    IF slides # <<>> /\ 0 <= current_slide_index
                     /\ current_slide_index < Len(slides)
    THEN << slides[current_slide_index + 1] >> ELSE None

\* C39. Every save_annotation call of a step carries the id of the slide that
\* was on display when the step began, and a step that changes the slide on
\* display leaves the in-session log empty: no record made on the slide left,
\* and no clear_canvas marker of the switch, waits there to be persisted under
\* the key of the slide entered.
C39_StepOK ==
    /\ \A i \in (Len(annotations_table) + 1)..Len(annotations_table') :
          << annotations_table'[i].slide_id >> = CurrentSlideId
    /\ CurrentSlideId' # CurrentSlideId => current_annotations' = <<>>
C39_PersistedUnderOwnSlide == [][C39_StepOK]_vars

====
